---- MODULE Spec2Model ----
(***************************************************************************)
(* Model of the qinhuai replicated object store:                           *)
(*   - AtomSet            native/src/workspace/atom_set.rs                 *)
(*   - ObjectGraph        src/joinable/crdt/object_graph.rs                *)
(*   - Store              packages/beacons/src/store.rs                    *)
(* StructureMetadata, Register and VectorHistory are not part of the       *)
(* sources at hand; they are modelled from the written specification.      *)
(***************************************************************************)
EXTENDS Integers, Sequences, FiniteSets, TLC

(***************************************************************************)
(* Bounds of the model.                                                    *)
(***************************************************************************)
\* Clocks offered to AtomSet.set range over 0..MaxClock.
MaxClock == 1

(***************************************************************************)
(* Option<T>: None is the empty tuple, Some(x) the one-element tuple.      *)
(***************************************************************************)
None == <<>>
Some(x) == <<x>>
IsSome(o) == o # <<>>
Unwrap(o) == o[1]

(***************************************************************************)
(* BTreeMap / HashMap: functions with a finite domain.                     *)
(***************************************************************************)
EmptyMap == [k \in {} |-> 0]
MapInsert(m, k, v) == [x \in DOMAIN m \cup {k} |-> IF x = k THEN v ELSE m[x]]
MapRemove(m, k) == [x \in DOMAIN m \ {k} |-> m[x]]
MapGet(m, k) == IF k \in DOMAIN m THEN Some(m[k]) ELSE None

SetMax(S) == CHOOSE x \in S : \A y \in S : y <= x

(***************************************************************************)
(* The input domains.                                                      *)
(***************************************************************************)
ObjectIds == {1, 2}
Buckets == {1, 2}
Clocks == 0 .. MaxClock
Labels == {1, 2}
Payloads == {<<>>, <<7>>}
\* Option<(src, label, value)>: the tombstone and two triples that differ in
\* each of the three columns the secondary indices look at.
Slvs == {None, Some(<<1, 1, <<>>>>), Some(<<2, 2, <<7>>>>)}

(***************************************************************************)
(* Big-endian fixed-width byte strings (u64::to_be_bytes and friends) and  *)
(* the BLOB order of the backend (memcmp, then length).                    *)
(***************************************************************************)
RECURSIVE BeBytes(_, _)
BeBytes(n, width) ==
  IF width = 0 THEN <<>>
  ELSE Append(BeBytes(n \div 256, width - 1), n % 256)

\* The encodings of 0 .. 15, computed once: entry n + 1 encodes n.
RECURSIVE BeTable(_, _)
BeTable(count, width) ==
  IF count = 0 THEN <<>>
  ELSE Append(BeTable(count - 1, width), BeBytes(count - 1, width))

BeTable8 == BeTable(16, 8)
BeTable16 == BeTable(16, 16)

to_be_bytes(n, width) ==
  IF width = 8 /\ n < Len(BeTable8) THEN BeTable8[n + 1]
  ELSE IF width = 16 /\ n < Len(BeTable16) THEN BeTable16[n + 1]
  ELSE BeBytes(n, width)

RECURSIVE FromBe(_, _)
FromBe(bytes, len) ==
  IF len = 0 THEN 0 ELSE FromBe(bytes, len - 1) * 256 + bytes[len]

\* (bytes that are the tabulated encoding of their last byte decode to it)
from_be_bytes(bytes) ==
  IF Len(bytes) = 8 /\ bytes[8] < Len(BeTable8) /\ bytes = BeTable8[bytes[8] + 1]
  THEN bytes[8]
  ELSE IF Len(bytes) = 16 /\ bytes[16] < Len(BeTable16) /\ bytes = BeTable16[bytes[16] + 1]
  THEN bytes[16]
  ELSE FromBe(bytes, Len(bytes))

RECURSIVE BlobLess(_, _)
BlobLess(a, b) ==
  IF a = <<>> THEN b # <<>>
  ELSE IF b = <<>> THEN FALSE
  ELSE IF a[1] # b[1] THEN a[1] < b[1]
  ELSE BlobLess(Tail(a), Tail(b))

(***************************************************************************)
(* StructureMetadata (super::metadata, modelled from the specification):   *)
(* per bucket the highest accepted clock.  A value is the map itself.      *)
(***************************************************************************)
StructureMetadata_buckets(metadata) == metadata

StructureMetadata_next(metadata) ==
  IF DOMAIN metadata = {} THEN 0
  ELSE 1 + SetMax({metadata[b] : b \in DOMAIN metadata})

\* update(bucket, clock) -> bool: the return value ...
StructureMetadata_accepts(metadata, bucket, clock) ==
  bucket \notin DOMAIN metadata \/ clock > metadata[bucket]

\* ... and the metadata it leaves behind.
StructureMetadata_update(metadata, bucket, clock) ==
  IF StructureMetadata_accepts(metadata, bucket, clock)
  THEN MapInsert(metadata, bucket, clock)
  ELSE metadata

StructureMetadata_save(metadata, txr) == [txr EXCEPT !.meta = metadata]

(***************************************************************************)
(* Rows of the table "<prefix>.<name>.data":                               *)
(*   <<id, bucket, clock, src, label, value>>, the last three nullable.    *)
(***************************************************************************)
make_row(id, item) ==
  LET slv == item[3] IN
  << to_be_bytes(id, 16), to_be_bytes(item[1], 8), to_be_bytes(item[2], 8),
     IF IsSome(slv) THEN Some(to_be_bytes(Unwrap(slv)[1], 16)) ELSE None,
     IF IsSome(slv) THEN Some(to_be_bytes(Unwrap(slv)[2], 8)) ELSE None,
     IF IsSome(slv) THEN Some(Unwrap(slv)[3]) ELSE None >>

read_row(row) ==
  << from_be_bytes(row[1]),
     << from_be_bytes(row[2]), from_be_bytes(row[3]),
        IF IsSome(row[6])
        THEN Some(<< from_be_bytes(Unwrap(row[4])), from_be_bytes(Unwrap(row[5])),
                     Unwrap(row[6]) >>)
        ELSE None >> >>

read_row_id_label_value(row) ==
  << from_be_bytes(row[1]), << from_be_bytes(Unwrap(row[5])), Unwrap(row[6]) >> >>

read_row_id_value(row) == << from_be_bytes(row[1]), Unwrap(row[6]) >>

read_row_id_src_value(row) ==
  << from_be_bytes(row[1]), << from_be_bytes(Unwrap(row[4])), Unwrap(row[6]) >> >>

read_row_id_src(row) == << from_be_bytes(row[1]), from_be_bytes(Unwrap(row[4])) >>

\* collect() of (key, value) pairs into a BTreeMap.
Collect(pairs) ==
  [k \in {p[1] : p \in pairs} |-> (CHOOSE p \in pairs : p[1] = k)[2]]

(***************************************************************************)
(* impl AtomSetTransactor for Transactor: the SQL statements.              *)
(* txr.data holds each row of the table as read_row returns it; the        *)
(* statements work on the stored columns, Rows(txr).  A comparison with    *)
(* NULL selects no row.                                                    *)
(***************************************************************************)
\* A connection whose tables have just been created.
EmptyTransactor == [data |-> {}, meta |-> EmptyMap]

Rows(txr) == {make_row(r[1], r[2]) : r \in txr.data}

Transactor_get(txr, id) ==
  LET found == {r \in Rows(txr) : r[1] = to_be_bytes(id, 16)} IN
  IF found = {} THEN None ELSE Some(read_row(CHOOSE r \in found : TRUE)[2])

\* REPLACE INTO: the row of the same primary key is dropped first.
Transactor_set(txr, id, item) ==
  [txr EXCEPT !.data = {r \in @ : to_be_bytes(r[1], 16) # to_be_bytes(id, 16)}
                         \cup {read_row(make_row(id, item))}]

Transactor_id_label_value_by_src(txr, src) ==
  Collect({read_row_id_label_value(r) :
             r \in {x \in Rows(txr) : IsSome(x[4]) /\ Unwrap(x[4]) = to_be_bytes(src, 16)}})

Transactor_id_value_by_src_label(txr, src, label) ==
  Collect({read_row_id_value(r) :
             r \in {x \in Rows(txr) : /\ IsSome(x[4]) /\ Unwrap(x[4]) = to_be_bytes(src, 16)
                                     /\ IsSome(x[5]) /\ Unwrap(x[5]) = to_be_bytes(label, 8)}})

Transactor_id_src_value_by_label(txr, label) ==
  Collect({read_row_id_src_value(r) :
             r \in {x \in Rows(txr) : IsSome(x[5]) /\ Unwrap(x[5]) = to_be_bytes(label, 8)}})

Transactor_id_src_by_label_value(txr, label, value) ==
  Collect({read_row_id_src(r) :
             r \in {x \in Rows(txr) : /\ IsSome(x[5]) /\ Unwrap(x[5]) = to_be_bytes(label, 8)
                                     /\ IsSome(x[6]) /\ Unwrap(x[6]) = value}})

\* WHERE bucket = ? AND clock > ?  with lower : Option<u64> bound to the
\* second parameter; None is bound as NULL.
Transactor_by_bucket_clock_range(txr, bucket, lower) ==
  Collect({read_row(r) :
             r \in {x \in Rows(txr) : /\ x[2] = to_be_bytes(bucket, 8)
                                     /\ IsSome(lower)
                                     /\ BlobLess(to_be_bytes(Unwrap(lower), 8), x[3])}})

(***************************************************************************)
(* AtomSet { metadata, mods }.  Item = <<bucket, clock, slv>>.             *)
(***************************************************************************)
AtomSet_new(txr) == [metadata |-> txr.meta, mods |-> EmptyMap]

AtomSet_buckets(self) == StructureMetadata_buckets(self.metadata)

AtomSet_next(self) == StructureMetadata_next(self.metadata)

\* Pending modifications as (id, prev slv, curr slv), in key order.
AtomSet_mods(self) ==
  { << id,
       IF IsSome(self.mods[id][1]) THEN Unwrap(self.mods[id][1])[3] ELSE None,
       self.mods[id][2][3] >> : id \in DOMAIN self.mods }

AtomSet_get(self, txr, id) ==
  IF id \in DOMAIN self.mods THEN Some(self.mods[id][2]) ELSE Transactor_get(txr, id)

\* Mutant: the removal branch of the overlay is missing.
AtomSet_id_label_value_by_src_NoRemove(self, txr, src) ==
  LET res == Transactor_id_label_value_by_src(txr, src)
      hit(id) == LET slv == self.mods[id][2][3] IN IsSome(slv) /\ Unwrap(slv)[1] = src
  IN [id \in DOMAIN res \cup {i \in DOMAIN self.mods : hit(i)} |->
        IF id \in DOMAIN self.mods /\ hit(id)
        THEN << Unwrap(self.mods[id][2][3])[2], Unwrap(self.mods[id][2][3])[3] >>
        ELSE res[id]]

AtomSet_id_label_value_by_src(self, txr, src) ==
  LET res == Transactor_id_label_value_by_src(txr, src)
      hit(id) == LET slv == self.mods[id][2][3] IN IsSome(slv) /\ Unwrap(slv)[1] = src
  IN [id \in (DOMAIN res \ DOMAIN self.mods) \cup {i \in DOMAIN self.mods : hit(i)} |->
        IF id \in DOMAIN self.mods
        THEN << Unwrap(self.mods[id][2][3])[2], Unwrap(self.mods[id][2][3])[3] >>
        ELSE res[id]]

AtomSet_id_value_by_src_label(self, txr, src, label) ==
  LET res == Transactor_id_value_by_src_label(txr, src, label)
      hit(id) == LET slv == self.mods[id][2][3]
                 IN IsSome(slv) /\ Unwrap(slv)[1] = src /\ Unwrap(slv)[2] = label
  IN [id \in (DOMAIN res \ DOMAIN self.mods) \cup {i \in DOMAIN self.mods : hit(i)} |->
        IF id \in DOMAIN self.mods THEN Unwrap(self.mods[id][2][3])[3] ELSE res[id]]

AtomSet_id_src_value_by_label(self, txr, label) ==
  LET res == Transactor_id_src_value_by_label(txr, label)
      hit(id) == LET slv == self.mods[id][2][3] IN IsSome(slv) /\ Unwrap(slv)[2] = label
  IN [id \in (DOMAIN res \ DOMAIN self.mods) \cup {i \in DOMAIN self.mods : hit(i)} |->
        IF id \in DOMAIN self.mods
        THEN << Unwrap(self.mods[id][2][3])[1], Unwrap(self.mods[id][2][3])[3] >>
        ELSE res[id]]

AtomSet_id_src_by_label_value(self, txr, label, value) ==
  LET res == Transactor_id_src_by_label_value(txr, label, value)
      hit(id) == LET slv == self.mods[id][2][3]
                 IN IsSome(slv) /\ Unwrap(slv)[2] = label /\ Unwrap(slv)[3] = value
  IN [id \in (DOMAIN res \ DOMAIN self.mods) \cup {i \in DOMAIN self.mods : hit(i)} |->
        IF id \in DOMAIN self.mods THEN Unwrap(self.mods[id][2][3])[1] ELSE res[id]]

\* Option<u64> order of Rust: None < Some(_), Some(a) < Some(b) iff a < b.
OptionGreater(a, b) ==
  IsSome(a) /\ (IsSome(b) => Unwrap(a) > Unwrap(b))

AtomSet_actions(self, txr, version) ==
  LET scanned == UNION {
        {<<id, Transactor_by_bucket_clock_range(txr, bucket, MapGet(version, bucket))[id]>> :
           id \in DOMAIN Transactor_by_bucket_clock_range(txr, bucket, MapGet(version, bucket))} :
        bucket \in DOMAIN AtomSet_buckets(self)}
      res == Collect(scanned)
      later(id) == LET item == self.mods[id][2]
                   IN OptionGreater(Some(item[2]), MapGet(version, item[1]))
  IN [id \in (DOMAIN res \ DOMAIN self.mods) \cup {i \in DOMAIN self.mods : later(i)} |->
        IF id \in DOMAIN self.mods THEN self.mods[id][2] ELSE res[id]]

\* set(): the return value ...
AtomSet_set_ret(self, bucket, clock) ==
  StructureMetadata_accepts(self.metadata, bucket, clock)

\* Mutant: an id that is already staged keeps its staged value.
AtomSet_set_KeepsStaged(self, txr, id, bucket, clock, slv) ==
  IF StructureMetadata_accepts(self.metadata, bucket, clock)
  THEN [metadata |-> StructureMetadata_update(self.metadata, bucket, clock),
        mods |-> IF id \notin DOMAIN self.mods
                 THEN MapInsert(self.mods, id, <<Transactor_get(txr, id), <<bucket, clock, slv>>>>)
                 ELSE self.mods]
  ELSE self

\* Mutant: the write is staged whatever update() answers.
AtomSet_set_Ungated(self, txr, id, bucket, clock, slv) ==
  [metadata |-> StructureMetadata_update(self.metadata, bucket, clock),
   mods |-> IF id \notin DOMAIN self.mods
            THEN MapInsert(self.mods, id, <<Transactor_get(txr, id), <<bucket, clock, slv>>>>)
            ELSE [self.mods EXCEPT ![id][2] = <<bucket, clock, slv>>]]

\* Mutant: a further write to a staged id moves the staged value to prev.
AtomSet_set_PrevFromStaged(self, txr, id, bucket, clock, slv) ==
  IF StructureMetadata_accepts(self.metadata, bucket, clock)
  THEN [metadata |-> StructureMetadata_update(self.metadata, bucket, clock),
        mods |-> IF id \notin DOMAIN self.mods
                 THEN MapInsert(self.mods, id, <<Transactor_get(txr, id), <<bucket, clock, slv>>>>)
                 ELSE [self.mods EXCEPT ![id] = <<Some(@[2]), <<bucket, clock, slv>>>>]]
  ELSE self

\* Mutant: an accepted write is staged but the metadata is not advanced.
AtomSet_set_StaleMetadata(self, txr, id, bucket, clock, slv) ==
  IF StructureMetadata_accepts(self.metadata, bucket, clock)
  THEN [metadata |-> self.metadata,
        mods |-> IF id \notin DOMAIN self.mods
                 THEN MapInsert(self.mods, id, <<Transactor_get(txr, id), <<bucket, clock, slv>>>>)
                 ELSE [self.mods EXCEPT ![id][2] = <<bucket, clock, slv>>]]
  ELSE self

\* ... and the AtomSet it leaves behind.
AtomSet_set(self, txr, id, bucket, clock, slv) ==
  IF StructureMetadata_accepts(self.metadata, bucket, clock)
  THEN [metadata |-> StructureMetadata_update(self.metadata, bucket, clock),
        mods |-> IF id \notin DOMAIN self.mods
                 THEN MapInsert(self.mods, id, <<Transactor_get(txr, id), <<bucket, clock, slv>>>>)
                 ELSE [self.mods EXCEPT ![id][2] = <<bucket, clock, slv>>]]
  ELSE self

\* save(): the transactor after the writes, the AtomSet, and the returned map.
RECURSIVE WriteAll(_, _, _)
WriteAll(txr, modmap, ids) ==
  IF ids = {} THEN txr
  ELSE LET id == CHOOSE i \in ids : TRUE
       IN WriteAll(Transactor_set(txr, id, modmap[id][2]), modmap, ids \ {id})

\* Mutant: save() writes the items but not the metadata.
AtomSet_save_txr_NoMetadata(self, txr) ==
  WriteAll(txr, self.mods, DOMAIN self.mods)

AtomSet_save_txr(self, txr) ==
  WriteAll(StructureMetadata_save(self.metadata, txr), self.mods, DOMAIN self.mods)

AtomSet_save(self) == [self EXCEPT !.mods = EmptyMap]

AtomSet_save_ret(self) == self.mods

(***************************************************************************)
(* Register (joinable::crdt::Register, modelled from the specification):   *)
(* a cell <<stamp, value>> merged last-writer-wins.  A stamp is the pair   *)
(* <<clock, bucket>>, compared lexicographically.                          *)
(***************************************************************************)
Stamps == Clocks \X Buckets

Register_less(s1, s2) == s1[1] < s2[1] \/ (s1[1] = s2[1] /\ s1[2] < s2[2])

Register_make_mod(value, clock) == <<clock, value>>

Register_get(register) == register[2]

\* State::apply of a map of registers: the register of the index is created
\* by its first write and replaced by a write with a newer stamp.
Registers_apply(registers, index, mod) ==
  IF index \notin DOMAIN registers \/ Register_less(registers[index][1], mod[1])
  THEN MapInsert(registers, index, mod)
  ELSE registers

(***************************************************************************)
(* ObjectGraph { inner: (vertices, atoms, edges) }.                        *)
(***************************************************************************)
ObjectGraph_new == [vertices |-> EmptyMap, atoms |-> EmptyMap, edges |-> EmptyMap]

ObjectGraph_vertices(self) == self.vertices
ObjectGraph_atoms(self) == self.atoms
ObjectGraph_edges(self) == self.edges

\* self.vertices().get(index) is Some: a register exists for the index.
ObjectGraph_vertex_known(self, index) == index \in DOMAIN ObjectGraph_vertices(self)

ObjectGraph_vertex(self, index) ==
  IF index \notin DOMAIN ObjectGraph_vertices(self) THEN None
  ELSE Register_get(ObjectGraph_vertices(self)[index])

ObjectGraph_atom(self, index) ==
  IF index \notin DOMAIN ObjectGraph_atoms(self) THEN None
  ELSE LET s == Register_get(ObjectGraph_atoms(self)[index]) IN
       IF IsSome(s)
       THEN (IF ObjectGraph_vertex_known(self, Unwrap(s)[1]) THEN s ELSE None)
       ELSE None

ObjectGraph_edge(self, index) ==
  IF index \notin DOMAIN ObjectGraph_edges(self) THEN None
  ELSE LET s == Register_get(ObjectGraph_edges(self)[index]) IN
       IF IsSome(s)
       THEN (IF /\ ObjectGraph_vertex_known(self, Unwrap(s)[1])
                /\ ObjectGraph_vertex_known(self, Unwrap(s)[2])
             THEN s ELSE None)
       ELSE None

\* The actions: a triple of maps, one of them holding the one modification.
ObjectGraph_make_vertex_mod(index, value, clock) ==
  << MapInsert(EmptyMap, index, Register_make_mod(value, clock)), EmptyMap, EmptyMap >>

ObjectGraph_make_atom_mod(index, value, clock) ==
  << EmptyMap, MapInsert(EmptyMap, index, Register_make_mod(value, clock)), EmptyMap >>

ObjectGraph_make_edge_mod(index, value, clock) ==
  << EmptyMap, EmptyMap, MapInsert(EmptyMap, index, Register_make_mod(value, clock)) >>

\* State::apply of the triple: each register map applies its part.
RECURSIVE Registers_apply_all(_, _, _)
Registers_apply_all(registers, mods, indices) ==
  IF indices = {} THEN registers
  ELSE LET i == CHOOSE x \in indices : TRUE
       IN Registers_apply_all(Registers_apply(registers, i, mods[i]), mods, indices \ {i})

ObjectGraph_apply(self, action) ==
  [vertices |-> Registers_apply_all(self.vertices, action[1], DOMAIN action[1]),
   atoms |-> Registers_apply_all(self.atoms, action[2], DOMAIN action[2]),
   edges |-> Registers_apply_all(self.edges, action[3], DOMAIN action[3])]

\* The values written to the graph.
VertexValues == {None, Some(0)}
AtomIds == {1}
AtomValues == {None, Some(<<1, 5>>), Some(<<2, 5>>)}
EdgeIds == {1}
EdgeValues == {None, Some(<<1, 2, 5>>), Some(<<2, 2, 5>>)}

(***************************************************************************)
(* serialize / deserialize: the codec is an external collaborator; a       *)
(* serialized value is an opaque wrapper that deserialize opens.           *)
(***************************************************************************)
serialize(value) == [bytes |-> value]
deserialize(payload) == payload.bytes

(***************************************************************************)
(* VectorHistory (persistent::vector_history, modelled from the            *)
(* specification): the replica's bucket and the recorded entries           *)
(* <<bucket, clock, name, action>>, at most one per (bucket, clock).       *)
(***************************************************************************)
VectorHistory_new(this) == [this |-> this, entries |-> {}]

VectorHistory_this(vh) == vh.this

VectorHistory_clocks(vh, bucket) == {e[2] : e \in {x \in vh.entries : x[1] = bucket}}

VectorHistory_next_this(vh) ==
  IF VectorHistory_clocks(vh, vh.this) = {} THEN 0
  ELSE SetMax(VectorHistory_clocks(vh, vh.this))

VectorHistory_nexts(vh) ==
  [b \in {e[1] : e \in vh.entries} |-> 1 + SetMax(VectorHistory_clocks(vh, b))]

VectorHistory_novel(vh, entry) ==
  \A e \in vh.entries : <<e[1], e[2]>> # <<entry[1], entry[2]>>

\* push(entry): the history it leaves behind; the entry is returned iff novel.
VectorHistory_push(vh, entry) ==
  IF VectorHistory_novel(vh, entry)
  THEN [vh EXCEPT !.entries = @ \cup {entry}]
  ELSE vh

\* The rows of the history table in key order (bucket, clock).
RECURSIVE InKeyOrder(_)
InKeyOrder(entries) ==
  IF entries = {} THEN <<>>
  ELSE LET first == CHOOSE e \in entries :
                      \A x \in entries : e[1] < x[1] \/ (e[1] = x[1] /\ e[2] <= x[2])
       IN <<first>> \o InKeyOrder(entries \ {first})

VectorHistory_collect(vh, version) ==
  InKeyOrder({e \in vh.entries : e[1] \in DOMAIN version => e[2] >= version[e[1]]})

\* append(entries): the entries that were novel, in the order given ...
RECURSIVE VectorHistory_append_ret(_, _)
VectorHistory_append_ret(vh, entries) ==
  IF entries = <<>> THEN <<>>
  ELSE IF VectorHistory_novel(vh, Head(entries))
  THEN <<Head(entries)>> \o VectorHistory_append_ret(VectorHistory_push(vh, Head(entries)),
                                                     Tail(entries))
  ELSE VectorHistory_append_ret(vh, Tail(entries))

\* ... and the history it leaves behind.
RECURSIVE VectorHistory_append(_, _)
VectorHistory_append(vh, entries) ==
  IF entries = <<>> THEN vh
  ELSE VectorHistory_append(VectorHistory_push(vh, Head(entries)), Tail(entries))

(***************************************************************************)
(* observable::crdt::ObjectSet (modelled from the specification): the      *)
(* AtomSet-like structure of the Store's atoms.  An action is              *)
(* <<id, bucket, clock, value>> stamped (this, next()); apply is the set   *)
(* of the AtomSet, the value being the payload bytes alone.                *)
(***************************************************************************)
ObjectSet_action(atoms, this, id, value) == <<id, this, AtomSet_next(atoms), value>>

ObjectSet_apply(atoms, connection, action) ==
  AtomSet_set(atoms, connection, action[1], action[2], action[3], action[4])

ObjectSet_get(atoms, connection, id) ==
  LET item == AtomSet_get(atoms, connection, id) IN
  IF IsSome(item) THEN Unwrap(item)[3] ELSE None

\* The subscription table of the ObjectSet: the pairs <<id, port>> in
\* subscription order.  A duplicate subscribe leaves the table as it is;
\* unsubscribe removes the exact pair.
ObjectSet_subscribe(ports, id, port) ==
  IF \E i \in DOMAIN ports : ports[i] = <<id, port>> THEN ports ELSE Append(ports, <<id, port>>)

ObjectSet_unsubscribe(ports, id, port) ==
  LET keep(p) == p # <<id, port>> IN SelectSeq(ports, keep)

\* The events apply(action) emits: when the value read for the id changes,
\* one (port, new value) per port subscribed to the id, in subscription order.
ObjectSet_apply_events(atoms, ports, connection, action) ==
  LET id == action[1]
      before == ObjectSet_get(atoms, connection, id)
      after == ObjectSet_get(ObjectSet_apply(atoms, connection, action), connection, id)
      mine(p) == p[1] = id
      subscribed == SelectSeq(ports, mine)
  IN IF before = after THEN <<>>
     ELSE [i \in DOMAIN subscribed |-> <<subscribed[i][2], after>>]

(***************************************************************************)
(* observable::crdt::ObjectGraph (modelled from the specification): the    *)
(* graph registers with the structure's metadata.  A Store edge is         *)
(* (src, label, dst); the register holds (src, dst, label).                *)
(***************************************************************************)
StoreGraph_new == [inner |-> ObjectGraph_new, metadata |-> EmptyMap]

StoreGraph_stamp(g, this) == <<StructureMetadata_next(g.metadata), this>>

StoreGraph_action_node(g, this, id, value) ==
  ObjectGraph_make_vertex_mod(id, value, StoreGraph_stamp(g, this))

StoreGraph_action_edge(g, this, id, value) ==
  ObjectGraph_make_edge_mod(
    id,
    IF IsSome(value) THEN Some(<<Unwrap(value)[1], Unwrap(value)[3], Unwrap(value)[2]>>) ELSE None,
    StoreGraph_stamp(g, this))

\* The stamps an action carries.
ActionStamps(action) ==
  UNION {{action[k][i][1] : i \in DOMAIN action[k]} : k \in 1 .. 3}

RECURSIVE AdvanceMetadata(_, _)
AdvanceMetadata(metadata, stamps) ==
  IF stamps = {} THEN metadata
  ELSE LET st == CHOOSE x \in stamps : TRUE
       IN AdvanceMetadata(StructureMetadata_update(metadata, st[2], st[1]), stamps \ {st})

StoreGraph_apply(g, action) ==
  [inner |-> ObjectGraph_apply(g.inner, action),
   metadata |-> AdvanceMetadata(g.metadata, ActionStamps(action))]

StoreGraph_node(g, id) == ObjectGraph_vertex(g.inner, id)

\* edge(id): present iff the register's value is present and both vertex(src)
\* and vertex(dst) are present; a tombstoned endpoint hides the edge.
StoreGraph_edge(g, id) ==
  IF id \in DOMAIN g.inner.edges /\ IsSome(Register_get(g.inner.edges[id]))
  THEN LET e == Unwrap(Register_get(g.inner.edges[id]))
       IN IF IsSome(StoreGraph_node(g, e[1])) /\ IsSome(StoreGraph_node(g, e[2]))
          THEN Some(<<e[1], e[3], e[2]>>) ELSE None
  ELSE None

\* The adjacency queries: the ids of the visible edges that match.
StoreGraph_query_edge_src(g, src) ==
  {id \in DOMAIN g.inner.edges :
     IsSome(StoreGraph_edge(g, id)) /\ Unwrap(StoreGraph_edge(g, id))[1] = src}

StoreGraph_query_edge_src_label(g, src, label) ==
  {id \in DOMAIN g.inner.edges :
     /\ IsSome(StoreGraph_edge(g, id))
     /\ Unwrap(StoreGraph_edge(g, id))[1] = src
     /\ Unwrap(StoreGraph_edge(g, id))[2] = label}

StoreGraph_query_edge_dst_label(g, dst, label) ==
  {id \in DOMAIN g.inner.edges :
     /\ IsSome(StoreGraph_edge(g, id))
     /\ Unwrap(StoreGraph_edge(g, id))[3] = dst
     /\ Unwrap(StoreGraph_edge(g, id))[2] = label}

\* The subscription tables of the graph: pairs <<key, port>> in subscription
\* order, the key being an id (nodes, edges), <<src, label>> (multiedges) or
\* <<dst, label>> (backedges).  A duplicate subscribe leaves the table as it
\* is; unsubscribe removes the exact pair.
StoreGraph_subscribe(ports, key, port) ==
  IF \E i \in DOMAIN ports : ports[i] = <<key, port>> THEN ports ELSE Append(ports, <<key, port>>)

StoreGraph_unsubscribe(ports, key, port) ==
  LET keep(p) == p # <<key, port>> IN SelectSeq(ports, keep)

RECURSIVE Ascending(_)
Ascending(ids) ==
  IF ids = {} THEN <<>>
  ELSE LET least == CHOOSE i \in ids : \A j \in ids : i <= j
       IN <<least>> \o Ascending(ids \ {least})

RECURSIVE Flatten(_)
Flatten(seqs) == IF seqs = <<>> THEN <<>> ELSE Head(seqs) \o Flatten(Tail(seqs))

\* The set events that take the adjacency set before to after, for one port.
StoreGraph_set_events(port, before, after) ==
  LET moved == Ascending((before \ after) \cup (after \ before))
  IN [i \in DOMAIN moved |->
        <<port, IF moved[i] \in after THEN <<"insert", moved[i]>> ELSE <<"remove", moved[i]>>>>]

\* The events apply emits when the graph goes from g to after: for every
\* subscription whose read-filtered value changed, the new value (nodes,
\* edges) or the entries and exits of its adjacency set (multiedges, then
\* backedges), in subscription order.
StoreGraph_apply_events(g, after, tables) ==
  LET node_changed(p) == StoreGraph_node(g, p[1]) # StoreGraph_node(after, p[1])
      edge_changed(p) == StoreGraph_edge(g, p[1]) # StoreGraph_edge(after, p[1])
      nodes == SelectSeq(tables.node_ports, node_changed)
      edges == SelectSeq(tables.edge_ports, edge_changed)
  IN [nodes |-> [i \in DOMAIN nodes |-> <<nodes[i][2], StoreGraph_node(after, nodes[i][1])>>],
      edges |-> [i \in DOMAIN edges |-> <<edges[i][2], StoreGraph_edge(after, edges[i][1])>>],
      id_sets |->
        Flatten([i \in DOMAIN tables.multiedge_ports |->
                   LET p == tables.multiedge_ports[i] IN
                   StoreGraph_set_events(p[2],
                     StoreGraph_query_edge_src_label(g, p[1][1], p[1][2]),
                     StoreGraph_query_edge_src_label(after, p[1][1], p[1][2]))])
        \o
        Flatten([i \in DOMAIN tables.backedge_ports |->
                   LET p == tables.backedge_ports[i] IN
                   StoreGraph_set_events(p[2],
                     StoreGraph_query_edge_dst_label(g, p[1][1], p[1][2]),
                     StoreGraph_query_edge_dst_label(after, p[1][1], p[1][2]))])]

(***************************************************************************)
(* EventBus { atoms, nodes, edges, id_sets }: four vectors of              *)
(* (port, event).                                                          *)
(***************************************************************************)
EventBus_new == [atoms |-> <<>>, nodes |-> <<>>, edges |-> <<>>, id_sets |-> <<>>]

\* impl Events<Option<Vec<u8>>> for EventBus
EventBus_push(bus, port, event) == [bus EXCEPT !.atoms = Append(@, <<port, event>>)]

RECURSIVE EventBus_push_all(_, _)
EventBus_push_all(bus, events) ==
  IF events = <<>> THEN bus
  ELSE EventBus_push_all(EventBus_push(bus, Head(events)[1], Head(events)[2]), Tail(events))

\* impl Events<Option<u64>> for EventBus
EventBus_push_node(bus, port, event) == [bus EXCEPT !.nodes = Append(@, <<port, event>>)]

\* impl Events<Option<(u128, u64, u128)>> for EventBus
EventBus_push_edge(bus, port, event) == [bus EXCEPT !.edges = Append(@, <<port, event>>)]

\* impl Events<SetEvent<u128>> for EventBus
EventBus_push_id_set(bus, port, event) == [bus EXCEPT !.id_sets = Append(@, <<port, event>>)]

\* The pushes of one graph.apply or subscribe, kind by kind.
RECURSIVE EventBus_push_graph(_, _)
EventBus_push_graph(bus, events) ==
  IF events.nodes # <<>>
  THEN EventBus_push_graph(EventBus_push_node(bus, Head(events.nodes)[1], Head(events.nodes)[2]),
                           [events EXCEPT !.nodes = Tail(@)])
  ELSE IF events.edges # <<>>
  THEN EventBus_push_graph(EventBus_push_edge(bus, Head(events.edges)[1], Head(events.edges)[2]),
                           [events EXCEPT !.edges = Tail(@)])
  ELSE IF events.id_sets # <<>>
  THEN EventBus_push_graph(EventBus_push_id_set(bus, Head(events.id_sets)[1],
                                                Head(events.id_sets)[2]),
                           [events EXCEPT !.id_sets = Tail(@)])
  ELSE bus

(***************************************************************************)
(* Store { connection, vector_history, atoms, graph, event_bus }.          *)
(* atom_ports is the subscription table held inside the atoms ObjectSet,   *)
(* node_ports, edge_ports, multiedge_ports and backedge_ports those held    *)
(* inside the graph.                                                       *)
(***************************************************************************)
Store_new(this) ==
  [connection |-> EmptyTransactor,
   vector_history |-> VectorHistory_new(this),
   atoms |-> AtomSet_new(EmptyTransactor),
   atom_ports |-> <<>>,
   graph |-> StoreGraph_new,
   node_ports |-> <<>>,
   edge_ports |-> <<>>,
   multiedge_ports |-> <<>>,
   backedge_ports |-> <<>>,
   event_bus |-> EventBus_new]

\* self.graph.apply(&mut txn, &mut self.event_bus, action)
Store_graph_apply(self, action) ==
  [self EXCEPT !.graph = StoreGraph_apply(@, action),
               !.event_bus = EventBus_push_graph(@,
                  StoreGraph_apply_events(self.graph, StoreGraph_apply(self.graph, action), self))]

Store_node(self, id) == StoreGraph_node(self.graph, id)
Store_atom(self, id) == ObjectSet_get(self.atoms, self.connection, id)
Store_edge(self, id) == StoreGraph_edge(self.graph, id)
Store_query_edge_src(self, src) == StoreGraph_query_edge_src(self.graph, src)
Store_query_edge_src_label(self, src, label) ==
  StoreGraph_query_edge_src_label(self.graph, src, label)
Store_query_edge_dst_label(self, dst, label) ==
  StoreGraph_query_edge_dst_label(self.graph, dst, label)

\* Mutant: the entry is stamped next_this() instead of next_this() + 1.
Store_entry_NoIncrement(self, name, action) ==
  << VectorHistory_this(self.vector_history),
     VectorHistory_next_this(self.vector_history), name, serialize(action) >>

\* The entry a local write pushes: (this(), next_this() + 1, name, action).
Store_entry(self, name, action) ==
  << VectorHistory_this(self.vector_history),
     VectorHistory_next_this(self.vector_history) + 1, name, serialize(action) >>

Store_set_node(self, id, value) ==
  LET action == StoreGraph_action_node(self.graph, VectorHistory_this(self.vector_history), id, value)
      entry == Store_entry(self, "graph", action)
  IN IF VectorHistory_novel(self.vector_history, entry)
     THEN Store_graph_apply([self EXCEPT !.vector_history = VectorHistory_push(@, entry)], action)
     ELSE self

\* Mutant: the entry is recorded in the history but never applied.
Store_set_atom_NotApplied(self, id, value) ==
  LET action == ObjectSet_action(self.atoms, VectorHistory_this(self.vector_history), id, value)
      entry == Store_entry(self, "atoms", action)
  IN IF VectorHistory_novel(self.vector_history, entry)
     THEN [self EXCEPT !.vector_history = VectorHistory_push(@, entry)]
     ELSE self

Store_set_atom(self, id, value) ==
  LET action == ObjectSet_action(self.atoms, VectorHistory_this(self.vector_history), id, value)
      entry == Store_entry(self, "atoms", action)
  IN IF VectorHistory_novel(self.vector_history, entry)
     THEN [self EXCEPT !.vector_history = VectorHistory_push(@, entry),
                       !.atoms = ObjectSet_apply(@, self.connection, action),
                       !.event_bus = EventBus_push_all(@,
                          ObjectSet_apply_events(self.atoms, self.atom_ports,
                                                 self.connection, action))]
     ELSE self

Store_set_edge(self, id, value) ==
  LET action == StoreGraph_action_edge(self.graph, VectorHistory_this(self.vector_history), id, value)
      entry == Store_entry(self, "graph", action)
  IN IF VectorHistory_novel(self.vector_history, entry)
     THEN Store_graph_apply([self EXCEPT !.vector_history = VectorHistory_push(@, entry)], action)
     ELSE self

\* Mutant: the edge register is read without the endpoint filter.
Store_set_edge_dst_read_Unfiltered(self, id) ==
  IF id \in DOMAIN self.graph.inner.edges /\ IsSome(Register_get(self.graph.inner.edges[id]))
  THEN LET e == Unwrap(Register_get(self.graph.inner.edges[id]))
       IN Some(<<e[1], e[3], e[2]>>)
  ELSE None

\* set_edge_dst is two transactions.  The first is the read, self.edge(id),
\* which commits when it returns.
Store_set_edge_dst_read(self, id) == Store_edge(self, id)

\* The second is the write with the value read by the first:
\* if let Some((src, label, _)) = read { self.set_edge(id, Some((src, label, dst))) }
Store_set_edge_dst(self, id, dst, read) ==
  IF IsSome(read) THEN Store_set_edge(self, id, Some(<<Unwrap(read)[1], Unwrap(read)[2], dst>>))
  ELSE self

\* Mutant: the port is registered but no snapshot is pushed.
Store_subscribe_atom_NoSnapshot(self, id, port) ==
  [self EXCEPT !.atom_ports = ObjectSet_subscribe(@, id, port)]

Store_subscribe_atom(self, id, port) ==
  [self EXCEPT !.atom_ports = ObjectSet_subscribe(@, id, port),
               !.event_bus = EventBus_push(@, port, ObjectSet_get(self.atoms, self.connection, id))]

Store_unsubscribe_atom(self, id, port) ==
  [self EXCEPT !.atom_ports = ObjectSet_unsubscribe(@, id, port)]

Store_subscribe_node(self, id, port) ==
  [self EXCEPT !.node_ports = StoreGraph_subscribe(@, id, port),
               !.event_bus = EventBus_push_node(@, port, Store_node(self, id))]

Store_unsubscribe_node(self, id, port) ==
  [self EXCEPT !.node_ports = StoreGraph_unsubscribe(@, id, port)]

Store_subscribe_edge(self, id, port) ==
  [self EXCEPT !.edge_ports = StoreGraph_subscribe(@, id, port),
               !.event_bus = EventBus_push_edge(@, port, Store_edge(self, id))]

Store_unsubscribe_edge(self, id, port) ==
  [self EXCEPT !.edge_ports = StoreGraph_unsubscribe(@, id, port)]

\* The snapshot of an adjacency set: one insert per edge in it.
Store_subscribe_multiedge(self, src, label, port) ==
  [self EXCEPT !.multiedge_ports = StoreGraph_subscribe(@, <<src, label>>, port),
               !.event_bus = EventBus_push_graph(@,
                  [nodes |-> <<>>, edges |-> <<>>,
                   id_sets |-> StoreGraph_set_events(port, {},
                                 Store_query_edge_src_label(self, src, label))])]

Store_unsubscribe_multiedge(self, src, label, port) ==
  [self EXCEPT !.multiedge_ports = StoreGraph_unsubscribe(@, <<src, label>>, port)]

Store_subscribe_backedge(self, dst, label, port) ==
  [self EXCEPT !.backedge_ports = StoreGraph_subscribe(@, <<dst, label>>, port),
               !.event_bus = EventBus_push_graph(@,
                  [nodes |-> <<>>, edges |-> <<>>,
                   id_sets |-> StoreGraph_set_events(port, {},
                                 Store_query_edge_dst_label(self, dst, label))])]

Store_unsubscribe_backedge(self, dst, label, port) ==
  [self EXCEPT !.backedge_ports = StoreGraph_unsubscribe(@, <<dst, label>>, port)]

Store_sync_serial(self) == serialize(VectorHistory_nexts(self.vector_history))

\* Mutant: the peer's vector is ignored and the whole history is sent.
Store_sync_actions_All(self, nexts) ==
  serialize(InKeyOrder(self.vector_history.entries))

\* Mutant: only the entries strictly above the peer's vector are sent.
Store_sync_actions_Strict(self, nexts) ==
  LET version == deserialize(nexts)
      sent(e) == e[1] \in DOMAIN version => e[2] > version[e[1]]
  IN serialize(SelectSeq(InKeyOrder(self.vector_history.entries), sent))

Store_sync_actions(self, nexts) ==
  serialize(VectorHistory_collect(self.vector_history, deserialize(nexts)))

\* Mutant: the dispatch loop ends at an entry of an unknown structure.
RECURSIVE Store_dispatch_StopsAtUnknown(_, _)
Store_dispatch_StopsAtUnknown(self, accepted) ==
  IF accepted = <<>> THEN self
  ELSE LET name == Head(accepted)[3]
           action == deserialize(Head(accepted)[4])
       IN IF name = "atoms"
          THEN Store_dispatch_StopsAtUnknown(
                 [self EXCEPT !.atoms = ObjectSet_apply(@, self.connection, action),
                              !.event_bus = EventBus_push_all(@,
                                 ObjectSet_apply_events(self.atoms, self.atom_ports,
                                                        self.connection, action))],
                 Tail(accepted))
          ELSE IF name = "graph"
          THEN Store_dispatch_StopsAtUnknown(Store_graph_apply(self, action), Tail(accepted))
          ELSE self

\* The dispatch loop of sync_apply over the newly accepted entries.
RECURSIVE Store_dispatch(_, _)
Store_dispatch(self, accepted) ==
  IF accepted = <<>> THEN self
  ELSE LET name == Head(accepted)[3]
           action == deserialize(Head(accepted)[4])
           applied == IF name = "atoms"
                      THEN [self EXCEPT !.atoms = ObjectSet_apply(@, self.connection, action),
                                        !.event_bus = EventBus_push_all(@,
                                           ObjectSet_apply_events(self.atoms, self.atom_ports,
                                                                  self.connection, action))]
                      ELSE IF name = "graph"
                      THEN Store_graph_apply(self, action)
                      ELSE self
       IN Store_dispatch(applied, Tail(accepted))

\* Mutant: the actions are applied but the history does not record them.
Store_sync_apply_NotRecorded(self, actions) ==
  Store_dispatch(self, VectorHistory_append_ret(self.vector_history, deserialize(actions)))

Store_sync_apply(self, actions) ==
  Store_dispatch(
    [self EXCEPT !.vector_history = VectorHistory_append(@, deserialize(actions))],
    VectorHistory_append_ret(self.vector_history, deserialize(actions)))

(***************************************************************************)
(* sync_apply on bytes that do not decode.  deserialize(..).unwrap()       *)
(* panics; the transaction of txn() is dropped with DropBehavior::Commit.  *)
(***************************************************************************)
Garbage == [garbage |-> TRUE]

\* deserialize(payload).is_ok()
Decodes(payload) == "bytes" \in DOMAIN payload

\* The accepted entries whose action the dispatch loop cannot decode.
Store_dispatch_failing(accepted) ==
  {i \in DOMAIN accepted : accepted[i][3] \in {"atoms", "graph"} /\ ~Decodes(accepted[i][4])}

Store_sync_apply_panics(self, actions) ==
  IF ~Decodes(actions) THEN TRUE
  ELSE Store_dispatch_failing(
         VectorHistory_append_ret(self.vector_history, deserialize(actions))) # {}

\* The Store a panicking sync_apply leaves behind when the panic unwinds:
\* append has recorded every novel entry, the entries before the failing
\* one are applied, and the drop of the transaction commits.
Store_sync_apply_unwound(self, actions) ==
  IF ~Decodes(actions) THEN self
  ELSE LET accepted == VectorHistory_append_ret(self.vector_history, deserialize(actions))
           first == CHOOSE i \in Store_dispatch_failing(accepted) :
                      \A j \in Store_dispatch_failing(accepted) : i <= j
       IN Store_dispatch(
            [self EXCEPT !.vector_history = VectorHistory_append(@, deserialize(actions))],
            SubSeq(accepted, 1, first - 1))

(***************************************************************************)
(* Collection { conn, name, joinable, delta_joinable, gamma_joinable }.    *)
(* Each map takes a structure name to the boxed structure T::initial made  *)
(* for it, written here as <<collection name, structure name>>; txns       *)
(* counts the transactions opened on conn.                                 *)
(***************************************************************************)
Collection_new(name) ==
  [name |-> name, joinable |-> EmptyMap, delta_joinable |-> EmptyMap,
   gamma_joinable |-> EmptyMap, txns |-> 0]

\* The three assert!s of add_joinable: one of them fails.
Collection_add_joinable_panics(self, name) ==
  \/ name \in DOMAIN self.joinable
  \/ name \in DOMAIN self.delta_joinable
  \/ name \in DOMAIN self.gamma_joinable

Collection_add_joinable(self, name) ==
  [self EXCEPT !.txns = @ + 1,
               !.joinable = MapInsert(@, name, <<self.name, name>>)]

\* Mutant: add_delta_joinable looks at its own map only.
Collection_add_delta_joinable_panics_OwnMap(self, name) ==
  name \in DOMAIN self.delta_joinable

Collection_add_delta_joinable_panics(self, name) ==
  \/ name \in DOMAIN self.joinable
  \/ name \in DOMAIN self.delta_joinable
  \/ name \in DOMAIN self.gamma_joinable

Collection_add_delta_joinable(self, name) ==
  [self EXCEPT !.txns = @ + 1,
               !.delta_joinable = MapInsert(@, name, <<self.name, name>>)]

Collection_add_gamma_joinable_panics(self, name) ==
  \/ name \in DOMAIN self.joinable
  \/ name \in DOMAIN self.delta_joinable
  \/ name \in DOMAIN self.gamma_joinable

Collection_add_gamma_joinable(self, name) ==
  [self EXCEPT !.txns = @ + 1,
               !.gamma_joinable = MapInsert(@, name, <<self.name, name>>)]

\* pub fn txn(&mut self) -> Transaction<'_> { self.conn.transaction().unwrap() }
Collection_txn(self) == [self EXCEPT !.txns = @ + 1]

\* The structure names the host registers.
Names == {"a", "b", "c"}

(***************************************************************************)
(* State.                                                                  *)
(*   atom_set  one AtomSet { metadata, mods }                              *)
(*   txr       its Transactor: the tables "data" and "meta"                *)
(*   last      the last call made on the AtomSet: <<name, return value>>   *)
(*   graph     one ObjectGraph                                             *)
(*   stores    the Store of each replica                                   *)
(*   wire      the sync payload in transit between two replicas, if any:   *)
(*             Some(<<kind, from, to, payload>>)                           *)
(*   collection  one Collection                                            *)
(***************************************************************************)
VARIABLES atom_set, txr, last, graph, stores, wire, collection, pending

vars == <<atom_set, txr, last, graph, stores, wire, collection, pending>>

\* Local writes made by all replicas together are bounded by MaxWrites.
MaxWrites == 3

Replicas == {1, 2}

Init ==
  /\ txr = EmptyTransactor
  /\ atom_set = AtomSet_new(EmptyTransactor)
  /\ last = <<"new", None>>
  /\ graph = ObjectGraph_new
  /\ stores = [r \in Replicas |-> Store_new(r)]
  /\ wire = None
  /\ collection = Collection_new("test")
  /\ pending = [r \in Replicas |-> None]

Set(id, bucket, clock, slv) ==
  /\ atom_set' = AtomSet_set(atom_set, txr, id, bucket, clock, slv)
  /\ last' = <<"set", Some(AtomSet_set_ret(atom_set, bucket, clock))>>
  /\ UNCHANGED <<txr, graph, stores, wire, collection, pending>>

Save ==
  /\ txr' = AtomSet_save_txr(atom_set, txr)
  /\ atom_set' = AtomSet_save(atom_set)
  /\ last' = <<"save", Some(AtomSet_save_ret(atom_set))>>
  /\ UNCHANGED <<graph, stores, wire, collection, pending>>

Next ==
  \/ \E id \in ObjectIds, bucket \in Buckets, clock \in Clocks, slv \in Slvs :
       Set(id, bucket, clock, slv)
  \/ Save

Spec == Init /\ [][Next]_vars

(***************************************************************************)
(* The AtomSet with re-creation: AtomSet::new over the same backend, at    *)
(* any time; what was staged and not saved is gone.                        *)
(***************************************************************************)
New ==
  /\ atom_set' = AtomSet_new(txr)
  /\ last' = <<"new", None>>
  /\ UNCHANGED <<txr, graph, stores, wire, collection, pending>>

ReopenNext ==
  \/ Next
  \/ New

ReopenSpec == Init /\ [][ReopenNext]_vars

(***************************************************************************)
(* The ObjectGraph under arbitrary modifications.                          *)
(***************************************************************************)
ApplyVertexMod(index, value, clock) ==
  /\ graph' = ObjectGraph_apply(graph, ObjectGraph_make_vertex_mod(index, value, clock))
  /\ UNCHANGED <<atom_set, txr, last, stores, wire, collection, pending>>

ApplyAtomMod(index, value, clock) ==
  /\ graph' = ObjectGraph_apply(graph, ObjectGraph_make_atom_mod(index, value, clock))
  /\ UNCHANGED <<atom_set, txr, last, stores, wire, collection, pending>>

ApplyEdgeMod(index, value, clock) ==
  /\ graph' = ObjectGraph_apply(graph, ObjectGraph_make_edge_mod(index, value, clock))
  /\ UNCHANGED <<atom_set, txr, last, stores, wire, collection, pending>>

GraphNext ==
  \/ \E index \in ObjectIds, value \in VertexValues, clock \in Stamps :
       ApplyVertexMod(index, value, clock)
  \/ \E index \in AtomIds, value \in AtomValues, clock \in Stamps :
       ApplyAtomMod(index, value, clock)
  \/ \E index \in EdgeIds, value \in EdgeValues, clock \in Stamps :
       ApplyEdgeMod(index, value, clock)

GraphSpec == Init /\ [][GraphNext]_vars

(***************************************************************************)
(* Two replicas: local writes and the sync exchange                        *)
(*   to.sync_apply(from.sync_actions(to.sync_serial()))                    *)
(* one call at a time, with local writes of either replica in between.     *)
(***************************************************************************)
StoreNodeIds == {1}
StoreAtomIds == {1}
StoreEdgeIds == {1}
StoreAtomValues(r) == {None, Some(<<r>>)}
StoreEdgeValues == {Some(<<1, 5, 1>>)}

LocalWrites(self) == VectorHistory_next_this(self.vector_history)

RECURSIVE Sum(_, _)
Sum(f, S) == IF S = {} THEN 0 ELSE LET x == CHOOSE y \in S : TRUE IN f[x] + Sum(f, S \ {x})

\* The Store of replica r is between calls: every method takes &mut self, so
\* none starts while set_edge_dst is between its two transactions.
Idle(r) == pending[r] = None

MayWrite == Sum([r \in Replicas |-> LocalWrites(stores[r])], Replicas) < MaxWrites

\* The events buffered by all replicas together are bounded by MaxEvents.
MaxEvents == 2

EventsFit(ss) ==
  Sum([r \in Replicas |-> Len(ss[r].event_bus.atoms) + Len(ss[r].event_bus.nodes)
                            + Len(ss[r].event_bus.edges) + Len(ss[r].event_bus.id_sets)],
      Replicas) <= MaxEvents

SetNode(r, id, value) ==
  /\ Idle(r)
  /\ MayWrite
  /\ stores' = [stores EXCEPT ![r] = Store_set_node(@, id, value)]
  /\ EventsFit(stores')
  /\ UNCHANGED <<atom_set, txr, last, graph, wire, collection, pending>>

SetAtom(r, id, value) ==
  /\ Idle(r)
  /\ MayWrite
  /\ stores' = [stores EXCEPT ![r] = Store_set_atom(@, id, value)]
  /\ EventsFit(stores')
  /\ UNCHANGED <<atom_set, txr, last, graph, wire, collection, pending>>

SetEdge(r, id, value) ==
  /\ Idle(r)
  /\ MayWrite
  /\ stores' = [stores EXCEPT ![r] = Store_set_edge(@, id, value)]
  /\ EventsFit(stores')
  /\ UNCHANGED <<atom_set, txr, last, graph, wire, collection, pending>>

\* to asks from: to.sync_serial() is sent.
SyncSerial(to, from) ==
  /\ Idle(to)
  /\ wire = None
  /\ to # from
  /\ wire' = Some(<<"serial", to, from, Store_sync_serial(stores[to])>>)
  /\ UNCHANGED <<atom_set, txr, last, graph, stores, collection, pending>>

\* from answers with from.sync_actions(serial).
SyncActions(from, to) ==
  /\ Idle(from)
  /\ IsSome(wire)
  /\ Unwrap(wire)[1] = "serial" /\ Unwrap(wire)[2] = to /\ Unwrap(wire)[3] = from
  /\ wire' = Some(<<"actions", from, to, Store_sync_actions(stores[from], Unwrap(wire)[4])>>)
  /\ UNCHANGED <<atom_set, txr, last, graph, stores, collection, pending>>

\* to applies the answer: to.sync_apply(actions).
SyncApply(to, from) ==
  /\ Idle(to)
  /\ IsSome(wire)
  /\ Unwrap(wire)[1] = "actions" /\ Unwrap(wire)[2] = from /\ Unwrap(wire)[3] = to
  /\ ~Store_sync_apply_panics(stores[to], Unwrap(wire)[4])
  /\ stores' = [stores EXCEPT ![to] = Store_sync_apply(@, Unwrap(wire)[4])]
  /\ EventsFit(stores')
  /\ wire' = None
  /\ UNCHANGED <<atom_set, txr, last, graph, collection, pending>>

StoreNext ==
  \/ \E r \in Replicas, id \in StoreNodeIds, value \in VertexValues : SetNode(r, id, value)
  \/ \E r \in Replicas, id \in StoreAtomIds : \E value \in StoreAtomValues(r) : SetAtom(r, id, value)
  \/ \E r \in Replicas, id \in StoreEdgeIds, value \in StoreEdgeValues : SetEdge(r, id, value)
  \/ \E to \in Replicas, from \in Replicas : SyncSerial(to, from)
  \/ \E to \in Replicas, from \in Replicas : SyncActions(from, to)
  \/ \E to \in Replicas, from \in Replicas : SyncApply(to, from)

StoreSpec == Init /\ [][StoreNext]_vars

(***************************************************************************)
(* Atom subscriptions: subscribe_atom / unsubscribe_atom with atom writes  *)
(* and the sync exchange.                                                  *)
(***************************************************************************)
Ports == {1}

\* The replicas whose host subscribes.
Subscribers == {2}

SubscribeAtom(r, id, port) ==
  /\ Idle(r)
  /\ stores' = [stores EXCEPT ![r] = Store_subscribe_atom(@, id, port)]
  /\ EventsFit(stores')
  /\ UNCHANGED <<atom_set, txr, last, graph, wire, collection, pending>>

UnsubscribeAtom(r, id, port) ==
  /\ Idle(r)
  /\ stores' = [stores EXCEPT ![r] = Store_unsubscribe_atom(@, id, port)]
  /\ UNCHANGED <<atom_set, txr, last, graph, wire, collection, pending>>

EventNext ==
  \/ \E r \in Replicas, id \in StoreAtomIds : \E value \in StoreAtomValues(r) : SetAtom(r, id, value)
  \/ \E r \in Subscribers, id \in StoreAtomIds, port \in Ports : SubscribeAtom(r, id, port)
  \/ \E r \in Subscribers, id \in StoreAtomIds, port \in Ports : UnsubscribeAtom(r, id, port)
  \/ \E to \in Replicas, from \in Replicas : SyncSerial(to, from)
  \/ \E to \in Replicas, from \in Replicas : SyncActions(from, to)
  \/ \E to \in Replicas, from \in Replicas : SyncApply(to, from)

EventSpec == Init /\ [][EventNext]_vars

(***************************************************************************)
(* Graph subscriptions: the subscribe_* / unsubscribe_* calls for nodes,   *)
(* edges, multiedges and backedges with node and edge writes and the sync  *)
(* exchange.  Replica 1 writes, the host of replica 2 subscribes.          *)
(***************************************************************************)
SubscribeNode(r, id, port) ==
  /\ Idle(r)
  /\ stores' = [stores EXCEPT ![r] = Store_subscribe_node(@, id, port)]
  /\ EventsFit(stores')
  /\ UNCHANGED <<atom_set, txr, last, graph, wire, collection, pending>>

UnsubscribeNode(r, id, port) ==
  /\ Idle(r)
  /\ stores' = [stores EXCEPT ![r] = Store_unsubscribe_node(@, id, port)]
  /\ UNCHANGED <<atom_set, txr, last, graph, wire, collection, pending>>

SubscribeEdge(r, id, port) ==
  /\ Idle(r)
  /\ stores' = [stores EXCEPT ![r] = Store_subscribe_edge(@, id, port)]
  /\ EventsFit(stores')
  /\ UNCHANGED <<atom_set, txr, last, graph, wire, collection, pending>>

UnsubscribeEdge(r, id, port) ==
  /\ Idle(r)
  /\ stores' = [stores EXCEPT ![r] = Store_unsubscribe_edge(@, id, port)]
  /\ UNCHANGED <<atom_set, txr, last, graph, wire, collection, pending>>

SubscribeMultiedge(r, src, label, port) ==
  /\ Idle(r)
  /\ stores' = [stores EXCEPT ![r] = Store_subscribe_multiedge(@, src, label, port)]
  /\ EventsFit(stores')
  /\ UNCHANGED <<atom_set, txr, last, graph, wire, collection, pending>>

UnsubscribeMultiedge(r, src, label, port) ==
  /\ Idle(r)
  /\ stores' = [stores EXCEPT ![r] = Store_unsubscribe_multiedge(@, src, label, port)]
  /\ UNCHANGED <<atom_set, txr, last, graph, wire, collection, pending>>

SubscribeBackedge(r, dst, label, port) ==
  /\ Idle(r)
  /\ stores' = [stores EXCEPT ![r] = Store_subscribe_backedge(@, dst, label, port)]
  /\ EventsFit(stores')
  /\ UNCHANGED <<atom_set, txr, last, graph, wire, collection, pending>>

UnsubscribeBackedge(r, dst, label, port) ==
  /\ Idle(r)
  /\ stores' = [stores EXCEPT ![r] = Store_unsubscribe_backedge(@, dst, label, port)]
  /\ UNCHANGED <<atom_set, txr, last, graph, wire, collection, pending>>

GraphEventNext ==
  \/ \E id \in StoreNodeIds, value \in VertexValues : SetNode(1, id, value)
  \/ \E id \in StoreEdgeIds, value \in StoreEdgeValues \cup {None} : SetEdge(1, id, value)
  \/ \E r \in Subscribers, id \in StoreNodeIds, port \in Ports : SubscribeNode(r, id, port)
  \/ \E r \in Subscribers, id \in StoreNodeIds, port \in Ports : UnsubscribeNode(r, id, port)
  \/ \E r \in Subscribers, id \in StoreEdgeIds, port \in Ports : SubscribeEdge(r, id, port)
  \/ \E r \in Subscribers, id \in StoreEdgeIds, port \in Ports : UnsubscribeEdge(r, id, port)
  \/ \E r \in Subscribers, src \in StoreNodeIds, port \in Ports : SubscribeMultiedge(r, src, 5, port)
  \/ \E r \in Subscribers, src \in StoreNodeIds, port \in Ports : UnsubscribeMultiedge(r, src, 5, port)
  \/ \E r \in Subscribers, dst \in StoreNodeIds, port \in Ports : SubscribeBackedge(r, dst, 5, port)
  \/ \E r \in Subscribers, dst \in StoreNodeIds, port \in Ports : UnsubscribeBackedge(r, dst, 5, port)
  \/ \E to \in Replicas, from \in Replicas : SyncSerial(to, from)
  \/ \E to \in Replicas, from \in Replicas : SyncActions(from, to)
  \/ \E to \in Replicas, from \in Replicas : SyncApply(to, from)

GraphEventSpec == Init /\ [][GraphEventNext]_vars

(***************************************************************************)
(* The sync exchange over a channel that may deliver an answer twice:      *)
(* replica 1 writes, the host of replica 2 is subscribed to the atom.      *)
(***************************************************************************)
\* to applies the answer, and the answer stays in transit.
Duplicate(to, from) ==
  /\ Idle(to)
  /\ IsSome(wire)
  /\ Unwrap(wire)[1] = "actions" /\ Unwrap(wire)[2] = from /\ Unwrap(wire)[3] = to
  /\ ~Store_sync_apply_panics(stores[to], Unwrap(wire)[4])
  /\ stores' = [stores EXCEPT ![to] = Store_sync_apply(@, Unwrap(wire)[4])]
  /\ EventsFit(stores')
  /\ UNCHANGED <<atom_set, txr, last, graph, wire, collection, pending>>

RedeliverNext ==
  \/ \E id \in StoreNodeIds, value \in VertexValues : SetNode(1, id, value)
  \/ \E id \in StoreAtomIds : \E value \in StoreAtomValues(1) : SetAtom(1, id, value)
  \/ \E id \in StoreEdgeIds, value \in StoreEdgeValues : SetEdge(1, id, value)
  \/ \E r \in Subscribers, id \in StoreAtomIds, port \in Ports : SubscribeAtom(r, id, port)
  \/ \E r \in Subscribers, id \in StoreAtomIds, port \in Ports : UnsubscribeAtom(r, id, port)
  \/ \E to \in Replicas, from \in Replicas : SyncSerial(to, from)
  \/ \E to \in Replicas, from \in Replicas : SyncActions(from, to)
  \/ \E to \in Replicas, from \in Replicas : SyncApply(to, from)
  \/ \E to \in Replicas, from \in Replicas : Duplicate(to, from)

RedeliverSpec == Init /\ [][RedeliverNext]_vars

(***************************************************************************)
(* The replicas with their reads: node, atom, edge and the three edge      *)
(* queries, each in an auto-commit transaction that writes nothing; the    *)
(* value read is handed to the host in last.                               *)
(***************************************************************************)
Node(r, id) ==
  /\ Idle(r)
  /\ last' = <<"node", Store_node(stores[r], id)>>
  /\ UNCHANGED <<atom_set, txr, graph, stores, wire, collection, pending>>

Atom(r, id) ==
  /\ Idle(r)
  /\ last' = <<"atom", Store_atom(stores[r], id)>>
  /\ UNCHANGED <<atom_set, txr, graph, stores, wire, collection, pending>>

Edge(r, id) ==
  /\ Idle(r)
  /\ last' = <<"edge", Store_edge(stores[r], id)>>
  /\ UNCHANGED <<atom_set, txr, graph, stores, wire, collection, pending>>

QueryEdgeSrc(r, src) ==
  /\ Idle(r)
  /\ last' = <<"query_edge_src", Store_query_edge_src(stores[r], src)>>
  /\ UNCHANGED <<atom_set, txr, graph, stores, wire, collection, pending>>

QueryEdgeSrcLabel(r, src, label) ==
  /\ Idle(r)
  /\ last' = <<"query_edge_src_label", Store_query_edge_src_label(stores[r], src, label)>>
  /\ UNCHANGED <<atom_set, txr, graph, stores, wire, collection, pending>>

QueryEdgeDstLabel(r, dst, label) ==
  /\ Idle(r)
  /\ last' = <<"query_edge_dst_label", Store_query_edge_dst_label(stores[r], dst, label)>>
  /\ UNCHANGED <<atom_set, txr, graph, stores, wire, collection, pending>>

\* Replica 1 writes, both replicas read and synchronise.
ReadNext ==
  \/ \E id \in StoreNodeIds, value \in VertexValues : SetNode(1, id, value)
  \/ \E id \in StoreAtomIds : \E value \in StoreAtomValues(1) : SetAtom(1, id, value)
  \/ \E id \in StoreEdgeIds, value \in StoreEdgeValues : SetEdge(1, id, value)
  \/ \E to \in Replicas, from \in Replicas : SyncSerial(to, from)
  \/ \E to \in Replicas, from \in Replicas : SyncActions(from, to)
  \/ \E to \in Replicas, from \in Replicas : SyncApply(to, from)
  \/ \E r \in Replicas, id \in StoreNodeIds : Node(r, id)
  \/ \E r \in Replicas, id \in StoreAtomIds : Atom(r, id)
  \/ \E r \in Replicas, id \in StoreEdgeIds : Edge(r, id)
  \/ \E r \in Replicas, src \in StoreNodeIds : QueryEdgeSrc(r, src)
  \/ \E r \in Replicas, src \in StoreNodeIds : QueryEdgeSrcLabel(r, src, 5)
  \/ \E r \in Replicas, dst \in StoreNodeIds : QueryEdgeDstLabel(r, dst, 5)

ReadSpec == Init /\ [][ReadNext]_vars

(***************************************************************************)
(* The replicas with set_edge_dst: replica 1 writes nodes 1 and 2, creates *)
(* the edge from 1 to 1 and redirects it, and its host subscribes to the   *)
(* edge; replica 2 takes part in the sync exchange.                        *)
(***************************************************************************)
\* self.edge(id): the first transaction.  A None ends the call here; a Some
\* is held by the call while the write lock is free again.
SetEdgeDstRead(r, id, dst) ==
  /\ Idle(r)
  /\ MayWrite
  /\ LET read == Store_set_edge_dst_read(stores[r], id)
     IN pending' = IF IsSome(read) THEN [pending EXCEPT ![r] = Some(<<id, dst, read>>)]
                   ELSE pending
  /\ UNCHANGED <<atom_set, txr, last, graph, stores, wire, collection>>

\* self.set_edge(id, Some((src, label, dst))): the second transaction.
SetEdgeDstWrite(r) ==
  /\ ~Idle(r)
  /\ MayWrite
  /\ LET call == Unwrap(pending[r])
     IN stores' = [stores EXCEPT ![r] = Store_set_edge_dst(@, call[1], call[2], call[3])]
  /\ EventsFit(stores')
  /\ pending' = [pending EXCEPT ![r] = None]
  /\ UNCHANGED <<atom_set, txr, last, graph, wire, collection>>

EdgeNext ==
  \/ \E id \in ObjectIds, value \in VertexValues : SetNode(1, id, value)
  \/ \E id \in StoreEdgeIds, value \in StoreEdgeValues : SetEdge(1, id, value)
  \/ \E id \in StoreEdgeIds, dst \in ObjectIds : SetEdgeDstRead(1, id, dst)
  \/ SetEdgeDstWrite(1)
  \/ \E id \in StoreEdgeIds, port \in Ports : SubscribeEdge(1, id, port)
  \/ \E id \in StoreEdgeIds, port \in Ports : UnsubscribeEdge(1, id, port)
  \/ \E to \in Replicas, from \in Replicas : SyncSerial(to, from)
  \/ \E to \in Replicas, from \in Replicas : SyncActions(from, to)
  \/ \E to \in Replicas, from \in Replicas : SyncApply(to, from)

EdgeSpec == Init /\ [][EdgeNext]_vars

(***************************************************************************)
(* A peer of another version: replica 1 also holds a structure "other"     *)
(* that this Store does not know.  Its writes are entries of the history   *)
(* like any other; their action bytes are not an action of "atoms" or      *)
(* "graph".                                                                *)
(***************************************************************************)
Store_set_other(self) ==
  [self EXCEPT !.vector_history = VectorHistory_push(@, Store_entry(self, "other", <<>>))]

SetOther(r) ==
  /\ Idle(r)
  /\ MayWrite
  /\ stores' = [stores EXCEPT ![r] = Store_set_other(@)]
  /\ UNCHANGED <<atom_set, txr, last, graph, wire, collection, pending>>

ForeignNext ==
  \/ EventNext
  \/ SetOther(1)

ForeignSpec == Init /\ [][ForeignNext]_vars

(***************************************************************************)
(* The Collection under registrations and txn().  A call whose assertion   *)
(* fails panics: nothing of the Collection has been touched at that point. *)
(***************************************************************************)
AddJoinable(name) ==
  /\ IF Collection_add_joinable_panics(collection, name)
     THEN /\ collection' = collection
          /\ last' = <<"add_joinable", "panic">>
     ELSE /\ collection' = Collection_add_joinable(collection, name)
          /\ last' = <<"add_joinable", "ok">>
  /\ UNCHANGED <<atom_set, txr, graph, stores, wire, pending>>

AddDeltaJoinable(name) ==
  /\ IF Collection_add_delta_joinable_panics(collection, name)
     THEN /\ collection' = collection
          /\ last' = <<"add_delta_joinable", "panic">>
     ELSE /\ collection' = Collection_add_delta_joinable(collection, name)
          /\ last' = <<"add_delta_joinable", "ok">>
  /\ UNCHANGED <<atom_set, txr, graph, stores, wire, pending>>

AddGammaJoinable(name) ==
  /\ IF Collection_add_gamma_joinable_panics(collection, name)
     THEN /\ collection' = collection
          /\ last' = <<"add_gamma_joinable", "panic">>
     ELSE /\ collection' = Collection_add_gamma_joinable(collection, name)
          /\ last' = <<"add_gamma_joinable", "ok">>
  /\ UNCHANGED <<atom_set, txr, graph, stores, wire, pending>>

\* The transactions the host opens through txn() are bounded by MaxTxns.
MaxTxns == 2

Txn ==
  /\ collection.txns < MaxTxns + Cardinality(DOMAIN collection.joinable)
                         + Cardinality(DOMAIN collection.delta_joinable)
                         + Cardinality(DOMAIN collection.gamma_joinable)
  /\ collection' = Collection_txn(collection)
  /\ last' = <<"txn", "ok">>
  /\ UNCHANGED <<atom_set, txr, graph, stores, wire, pending>>

CollectionNext ==
  \/ \E name \in Names : AddJoinable(name)
  \/ \E name \in Names : AddDeltaJoinable(name)
  \/ \E name \in Names : AddGammaJoinable(name)
  \/ Txn

CollectionSpec == Init /\ [][CollectionNext]_vars

(***************************************************************************)
(* The sync exchange over a channel that may damage the answer in transit. *)
(***************************************************************************)
\* The ways the bytes of an answer can be damaged: the whole list, or the
\* action bytes of one entry.
Damaged(actions) ==
  {Garbage} \cup
  {serialize([deserialize(actions) EXCEPT ![i][4] = Garbage]) : i \in DOMAIN deserialize(actions)}

Corrupt(from, to) ==
  /\ IsSome(wire)
  /\ Unwrap(wire)[1] = "actions" /\ Unwrap(wire)[2] = from /\ Unwrap(wire)[3] = to
  /\ ~Store_sync_apply_panics(stores[to], Unwrap(wire)[4])
  /\ \E damaged \in Damaged(Unwrap(wire)[4]) :
       wire' = Some(<<"actions", from, to, damaged>>)
  /\ UNCHANGED <<atom_set, txr, last, graph, stores, collection, pending>>

\* to.sync_apply(actions) panics.  Built with panic = "unwind" the drop of
\* the transaction commits what was done; built with panic = "abort" the
\* process ends and the open transaction is rolled back.
SyncApplyPanics(to, from) ==
  /\ Idle(to)
  /\ IsSome(wire)
  /\ Unwrap(wire)[1] = "actions" /\ Unwrap(wire)[2] = from /\ Unwrap(wire)[3] = to
  /\ Store_sync_apply_panics(stores[to], Unwrap(wire)[4])
  /\ \E panic \in {"unwind", "abort"} :
       stores' = [stores EXCEPT ![to] =
                    IF panic = "unwind" THEN Store_sync_apply_unwound(@, Unwrap(wire)[4]) ELSE @]
  /\ wire' = None
  /\ UNCHANGED <<atom_set, txr, last, graph, collection, pending>>

FaultNext ==
  \/ StoreNext
  \/ \E to \in Replicas, from \in Replicas : Corrupt(from, to)
  \/ \E to \in Replicas, from \in Replicas : SyncApplyPanics(to, from)

FaultSpec == Init /\ [][FaultNext]_vars

(***************************************************************************)
(* Observations of an AtomSet used by the properties below.                *)
(***************************************************************************)
Srcs == {1, 2}

\* The item currently read for id, and whether its value is present.
Current(self, t, id) == AtomSet_get(self, t, id)
HasValue(self, t, id) == IsSome(Current(self, t, id)) /\ IsSome(Unwrap(Current(self, t, id))[3])
ValueOf(self, t, id) == Unwrap(Unwrap(Current(self, t, id))[3])

\* Every read a caller can make of an AtomSet, as one value.
Observe(self, t) ==
  << [id \in ObjectIds |-> AtomSet_get(self, t, id)],
     [src \in Srcs |-> AtomSet_id_label_value_by_src(self, t, src)],
     [sl \in Srcs \X Labels |-> AtomSet_id_value_by_src_label(self, t, sl[1], sl[2])],
     [label \in Labels |-> AtomSet_id_src_value_by_label(self, t, label)],
     [lv \in Labels \X Payloads |-> AtomSet_id_src_by_label_value(self, t, lv[1], lv[2])],
     AtomSet_buckets(self), AtomSet_next(self), AtomSet_mods(self) >>

\* (clock, bucket) compared lexicographically.
StampLess(b1, c1, b2, c2) == c1 < c2 \/ (c1 = c2 /\ b1 < b2)

(***************************************************************************)
(* C1.  LWW determinism of register writes: two writes to the same id with *)
(* distinct stamps, applied through AtomSet.set in either order from the   *)
(* same state, end in the same state, and get(id) then carries the value   *)
(* of the write with the lexicographically greatest (clock, bucket).       *)
(***************************************************************************)
C1_LWWDeterminism ==
  \A id \in ObjectIds, b1 \in Buckets, b2 \in Buckets, c1 \in Clocks, c2 \in Clocks,
     v1 \in Slvs, v2 \in Slvs :
    (<<b1, c1>> # <<b2, c2>>
       /\ AtomSet_set_ret(atom_set, b1, c1) /\ AtomSet_set_ret(atom_set, b2, c2)) =>
      LET s12 == AtomSet_set(AtomSet_set(atom_set, txr, id, b1, c1, v1), txr, id, b2, c2, v2)
          s21 == AtomSet_set(AtomSet_set(atom_set, txr, id, b2, c2, v2), txr, id, b1, c1, v1)
          win == IF StampLess(b1, c1, b2, c2) THEN v2 ELSE v1
      IN /\ s12 = s21
         /\ Unwrap(AtomSet_get(s12, txr, id))[3] = win
         /\ Unwrap(AtomSet_get(s21, txr, id))[3] = win

(***************************************************************************)
(* C7.  AtomSet.set(id, bucket, clock, slv) is accepted (returns true and  *)
(* becomes the value returned by get(id)) iff the bucket is unseen or the  *)
(* clock is strictly greater than the stored clock of that bucket; once a  *)
(* write with clock c has been accepted for bucket b, no later set with    *)
(* bucket b and clock c' <= c is accepted, for any id and across save.     *)
(***************************************************************************)
SetAcceptedIffNewer ==
  \A id \in ObjectIds, bucket \in Buckets, clock \in Clocks, slv \in Slvs :
    LET newer == \/ bucket \notin DOMAIN AtomSet_buckets(atom_set)
                 \/ clock > AtomSet_buckets(atom_set)[bucket]
        after == AtomSet_set(atom_set, txr, id, bucket, clock, slv)
    IN /\ AtomSet_set_ret(atom_set, bucket, clock) <=> newer
       /\ newer => /\ AtomSet_get(after, txr, id) = Some(<<bucket, clock, slv>>)
                   /\ \A c \in Clocks : c <= clock => ~AtomSet_set_ret(after, bucket, c)
       /\ ~newer => AtomSet_get(after, txr, id) = AtomSet_get(atom_set, txr, id)

\* A stamp that is refused now is refused after every further step.
RefusedStaysRefused ==
  \A bucket \in Buckets, clock \in Clocks :
    ~AtomSet_set_ret(atom_set, bucket, clock) => ~AtomSet_set_ret(atom_set', bucket, clock)

C7_AcceptedIffStrictlyNewer == []SetAcceptedIffNewer /\ [][RefusedStaysRefused]_vars

\* A set is refused after an earlier accepted write has been saved.
C7_Witness ==
  /\ last = <<"set", Some(FALSE)>>
  /\ txr.data # {}
  /\ atom_set.mods = EmptyMap

(***************************************************************************)
(* C8.  A set whose stamp is not strictly newer returns false and leaves   *)
(* get(id) for every id, the four secondary-index queries, buckets(),      *)
(* next() and mods() unchanged; applying an action twice is the same as    *)
(* applying it once.                                                       *)
(***************************************************************************)
C8_RejectedSetIsNoOp ==
  LET before == Observe(atom_set, txr) IN
  \A id \in ObjectIds, bucket \in Buckets, clock \in Clocks, slv \in Slvs :
    LET stale == /\ bucket \in DOMAIN AtomSet_buckets(atom_set)
                 /\ clock <= AtomSet_buckets(atom_set)[bucket]
        once == AtomSet_set(atom_set, txr, id, bucket, clock, slv)
        twice == AtomSet_set(once, txr, id, bucket, clock, slv)
    IN \* (an AtomSet equal to the one before is read the same way: the
       \* observations are only compared when the AtomSet has changed)
       /\ stale => /\ ~AtomSet_set_ret(atom_set, bucket, clock)
                   /\ once # atom_set => Observe(once, txr) = before
       /\ ~AtomSet_set_ret(once, bucket, clock)
       /\ twice # once => Observe(twice, txr) = Observe(once, txr)

\* A set has just been refused while one write is staged over a saved row
\* and another row is saved only.
C8_Witness ==
  /\ last = <<"set", Some(FALSE)>>
  /\ \E id \in DOMAIN atom_set.mods : IsSome(Transactor_get(txr, id))
  /\ \E id \in ObjectIds : id \notin DOMAIN atom_set.mods /\ IsSome(Transactor_get(txr, id))

(***************************************************************************)
(* C9.  Each of the four secondary-index queries, computed while writes    *)
(* are staged, contains id exactly when the latest value of id satisfies   *)
(* the query predicate (an id moved out of the predicate or tombstoned is  *)
(* removed even if its backend row still matches), and the same query      *)
(* after save() returns the same map.                                      *)
(***************************************************************************)
Matching(P(_)) == {id \in ObjectIds : HasValue(atom_set, txr, id) /\ P(ValueOf(atom_set, txr, id))}

C9_QueryComposition ==
  LET saved == AtomSet_save(atom_set)
      stxr == AtomSet_save_txr(atom_set, txr)
      V(id) == ValueOf(atom_set, txr, id)
  IN /\ \A src \in Srcs :
          LET P(slv) == slv[1] = src
              want == [id \in Matching(P) |-> <<V(id)[2], V(id)[3]>>]
          IN /\ AtomSet_id_label_value_by_src(atom_set, txr, src) = want
             /\ AtomSet_id_label_value_by_src(saved, stxr, src) = want
     /\ \A src \in Srcs, label \in Labels :
          LET P(slv) == slv[1] = src /\ slv[2] = label
              want == [id \in Matching(P) |-> V(id)[3]]
          IN /\ AtomSet_id_value_by_src_label(atom_set, txr, src, label) = want
             /\ AtomSet_id_value_by_src_label(saved, stxr, src, label) = want
     /\ \A label \in Labels :
          LET P(slv) == slv[2] = label
              want == [id \in Matching(P) |-> <<V(id)[1], V(id)[3]>>]
          IN /\ AtomSet_id_src_value_by_label(atom_set, txr, label) = want
             /\ AtomSet_id_src_value_by_label(saved, stxr, label) = want
     /\ \A label \in Labels, value \in Payloads :
          LET P(slv) == slv[2] = label /\ slv[3] = value
              want == [id \in Matching(P) |-> V(id)[1]]
          IN /\ AtomSet_id_src_by_label_value(atom_set, txr, label, value) = want
             /\ AtomSet_id_src_by_label_value(saved, stxr, label, value) = want

\* One staged write has moved a saved row out of a predicate its backend row
\* still matches, another has tombstoned a saved row, after an accepted set.
C9_Witness ==
  /\ last = <<"set", Some(TRUE)>>
  /\ \E id \in DOMAIN atom_set.mods :
       /\ id \in DOMAIN Transactor_id_label_value_by_src(txr, 1)
       /\ id \notin DOMAIN AtomSet_id_label_value_by_src(atom_set, txr, 1)
  /\ \E id \in DOMAIN atom_set.mods :
       /\ IsSome(Transactor_get(txr, id))
       /\ IsSome(Unwrap(Transactor_get(txr, id))[3])
       /\ atom_set.mods[id][2][3] = None

(***************************************************************************)
(* C10.  AtomSet.actions(version) returns exactly the items (current       *)
(* register per id, tombstones included) whose stamp clock is strictly     *)
(* greater than version[stamp.bucket], a bucket missing from version       *)
(* counting as 0; the result is the same whether the items are still       *)
(* staged in mods or have already been saved to the backend.               *)
(***************************************************************************)
Versions == UNION {[bs -> Clocks] : bs \in SUBSET Buckets}

C10_ActionsExact ==
  \A version \in Versions :
    LET floor(b) == IF b \in DOMAIN version THEN version[b] ELSE 0
        item(id) == Unwrap(AtomSet_get(atom_set, txr, id))
        want == [id \in {i \in ObjectIds : /\ IsSome(AtomSet_get(atom_set, txr, i))
                                            /\ item(i)[2] > floor(item(i)[1])} |-> item(id)]
    IN /\ AtomSet_actions(atom_set, txr, version) = want
       /\ AtomSet_actions(AtomSet_save(atom_set), AtomSet_save_txr(atom_set, txr), version) = want

(***************************************************************************)
(* C2.  Referential hide for edges: ObjectGraph.edge(id) is present iff    *)
(* the edge register's value is present and vertex(src) and vertex(dst)    *)
(* are both present (a register with a present value); tombstoning an      *)
(* endpoint of a visible edge hides the edge.                              *)
(***************************************************************************)
C2_EdgeReferentialHide ==
  \A id \in EdgeIds :
    IsSome(ObjectGraph_edge(graph, id)) <=>
      /\ id \in DOMAIN graph.edges
      /\ IsSome(Register_get(graph.edges[id]))
      /\ IsSome(ObjectGraph_vertex(graph, Unwrap(Register_get(graph.edges[id]))[1]))
      /\ IsSome(ObjectGraph_vertex(graph, Unwrap(Register_get(graph.edges[id]))[2]))

(***************************************************************************)
(* C3.  Referential hide for atoms: ObjectGraph.atom(id) is present iff    *)
(* the atom register's value is present and vertex(src) of that value is   *)
(* present; an atom whose source vertex was written and then tombstoned    *)
(* reads as absent.                                                        *)
(***************************************************************************)
C3_AtomReferentialHide ==
  \A id \in AtomIds :
    IsSome(ObjectGraph_atom(graph, id)) <=>
      /\ id \in DOMAIN graph.atoms
      /\ IsSome(Register_get(graph.atoms[id]))
      /\ IsSome(ObjectGraph_vertex(graph, Unwrap(Register_get(graph.atoms[id]))[1]))

(***************************************************************************)
(* Observations of the replicas used by the properties below.              *)
(***************************************************************************)
Entries(r) == stores[r].vector_history.entries

SeqToSet(seq) == {seq[i] : i \in DOMAIN seq}

\* Every read of a Store, as one value.
Reads(self) ==
  << [id \in ObjectIds |-> Store_node(self, id)],
     [id \in ObjectIds |-> Store_atom(self, id)],
     [id \in ObjectIds |-> Store_edge(self, id)],
     [src \in ObjectIds |-> Store_query_edge_src(self, src)],
     [k \in ObjectIds \X {5} |-> Store_query_edge_src_label(self, k[1], k[2])],
     [k \in ObjectIds \X {5} |-> Store_query_edge_dst_label(self, k[1], k[2])] >>

(***************************************************************************)
(* C4.  Sync convergence: once two replicas have exchanged                 *)
(* sync_serial / sync_actions / sync_apply in both directions with no      *)
(* further writes, so that both histories hold the same entries, node,     *)
(* atom, edge and the three adjacency queries return identical results on  *)
(* both, for every id and key.                                             *)
(***************************************************************************)
C4_SyncConvergence ==
  \A r1 \in Replicas, r2 \in Replicas :
    (wire = None /\ Entries(r1) = Entries(r2)) => Reads(stores[r1]) = Reads(stores[r2])

(***************************************************************************)
(* C5.  Sync delta exactness: the answer of `from` to the vector of `to`   *)
(* holds every history entry of `from` that `to` has not recorded and no   *)
(* entry `to` already has; after `to` has applied it, to.sync_serial()     *)
(* reports for the bucket of `from` 1 + the number of local writes `from`  *)
(* has made, so that a later exchange returns only entries written since.  *)
(***************************************************************************)
ReplyIsExactDelta ==
  (IsSome(wire) /\ Unwrap(wire)[1] = "serial" /\ IsSome(wire') /\ Unwrap(wire')[1] = "actions") =>
    LET from == Unwrap(wire')[2]
        to == Unwrap(wire')[3]
        reply == deserialize(Unwrap(wire')[4])
    IN /\ SeqToSet(reply) = Entries(from) \ Entries(to)
       /\ Len(reply) = Cardinality(SeqToSet(reply))

AppliedVectorCountsWrites ==
  (IsSome(wire) /\ Unwrap(wire)[1] = "actions" /\ wire' = None) =>
    LET from == Unwrap(wire)[2]
        to == Unwrap(wire)[3]
        reply == SeqToSet(deserialize(Unwrap(wire)[4]))
        known == {e \in Entries(to) \cup reply : e[1] = from}
        serial == deserialize(Store_sync_serial(stores'[to]))
    IN /\ stores'[to].vector_history.entries = Entries(to) \cup reply
       /\ known # {} => from \in DOMAIN serial /\ serial[from] = 1 + Cardinality(known)
       /\ (known # {} /\ Cardinality(known) = LocalWrites(stores[from])) =>
            serial[from] = 1 + LocalWrites(stores'[from])

C5_SyncDeltaExact == [][ReplyIsExactDelta /\ AppliedVectorCountsWrites]_vars

\* A second answer is in transit: `to` already holds entries of `from`,
\* and the answer carries the entries written since.
C5_Witness ==
  /\ IsSome(wire)
  /\ Unwrap(wire)[1] = "actions"
  /\ deserialize(Unwrap(wire)[4]) # <<>>
  /\ \E e \in Entries(Unwrap(wire)[3]) : e[1] = Unwrap(wire)[2]

(***************************************************************************)
(* C6.  Read-your-writes: immediately after Store.set_atom(id, value)      *)
(* returns, after any earlier local writes and sync_apply calls,           *)
(* Store.atom(id) returns value (Some(v) or None); the pending write is    *)
(* read from the staging overlay, nothing is saved in between.             *)
(***************************************************************************)
ReadsOwnAtomWrite ==
  \A r \in Replicas, id \in StoreAtomIds :
    \A value \in StoreAtomValues(r) :
      SetAtom(r, id, value) =>
        /\ Store_atom(stores'[r], id) = value
        /\ id \in DOMAIN stores'[r].atoms.mods
        /\ stores'[r].connection = stores[r].connection

C6_ReadYourWrites == [][ReadsOwnAtomWrite]_vars

\* A replica reads its own atom write, made after it applied an atom write
\* of the other replica to the same id.
C6_Witness ==
  \E r \in Replicas :
    \E mine \in Entries(r), other \in Entries(r) :
      /\ mine[1] = r /\ mine[3] = "atoms" /\ mine[2] = LocalWrites(stores[r])
      /\ other[1] # r /\ other[3] = "atoms"
      /\ deserialize(mine[4])[1] = deserialize(other[4])[1]
      /\ deserialize(mine[4])[3] > deserialize(other[4])[3]
      /\ IsSome(deserialize(mine[4])[4])
      /\ Store_atom(stores[r], deserialize(mine[4])[1]) = deserialize(mine[4])[4]

(***************************************************************************)
(* C11.  Failure atomicity of sync_apply: if deserialization fails during  *)
(* Store.sync_apply (of the action list or of one action's bytes while     *)
(* dispatching), the Store's history and CRDT state are the same as before *)
(* the call: no entry of the failed payload is recorded and no action of   *)
(* it remains applied.                                                     *)
(***************************************************************************)
FailedApplyLeavesStore ==
  (IsSome(wire) /\ wire' = None) =>
    (Store_sync_apply_panics(stores[Unwrap(wire)[3]], Unwrap(wire)[4]) => stores' = stores)

C11_SyncApplyFailureAtomic == [][FailedApplyLeavesStore]_vars

(***************************************************************************)
(* C12.  Monotonic clocks: for every bucket b, buckets()[b] never          *)
(* decreases and b never disappears from buckets(), across set (accepted   *)
(* or rejected), save, and re-creation of the AtomSet over the same        *)
(* backend after a save.                                                   *)
(***************************************************************************)
BucketsMonotone ==
  \A b \in DOMAIN AtomSet_buckets(atom_set) :
    /\ b \in DOMAIN AtomSet_buckets(atom_set')
    /\ AtomSet_buckets(atom_set')[b] >= AtomSet_buckets(atom_set)[b]

\* A re-creation counts when nothing is staged, i.e. after a save.
C12_MonotonicClocks ==
  [][(last'[1] = "new" => atom_set.mods = EmptyMap) => BucketsMonotone]_vars

\* The AtomSet was re-created over a backend holding a clock for every
\* bucket, the highest clock among them.
C12_Witness ==
  /\ last[1] = "new"
  /\ DOMAIN AtomSet_buckets(atom_set) = Buckets
  /\ \E b \in Buckets : AtomSet_buckets(atom_set)[b] = MaxClock

(***************************************************************************)
(* C13.  Tombstones persist: once an id has had an accepted write, get(id) *)
(* never again returns 'no record'; after an accepted set(id, b, c, None)  *)
(* get(id) returns (b, c, None) both before and after save, the id is      *)
(* absent from every secondary-index query, and actions(version) still     *)
(* reports the tombstone with its stamp whenever c is newer than           *)
(* version[b].                                                             *)
(***************************************************************************)
\* An accepted set(id, b, c, None) is read back, staged and saved.
TombstoneIsRead ==
  \A id \in ObjectIds, b \in Buckets, c \in Clocks :
    AtomSet_set_ret(atom_set, b, c) =>
      LET after == AtomSet_set(atom_set, txr, id, b, c, None) IN
      /\ AtomSet_get(after, txr, id) = Some(<<b, c, None>>)
      /\ AtomSet_get(AtomSet_save(after), AtomSet_save_txr(after, txr), id) = Some(<<b, c, None>>)

\* What holds of self over t for an id whose item is the tombstone (b, c, None).
\* A bucket that version does not name counts as clock 0.
TombstoneKept(self, t, id, b, c) ==
  /\ AtomSet_get(self, t, id) = Some(<<b, c, None>>)
  /\ \A src \in Srcs : id \notin DOMAIN AtomSet_id_label_value_by_src(self, t, src)
  /\ \A src \in Srcs, label \in Labels :
       id \notin DOMAIN AtomSet_id_value_by_src_label(self, t, src, label)
  /\ \A label \in Labels : id \notin DOMAIN AtomSet_id_src_value_by_label(self, t, label)
  /\ \A label \in Labels, value \in Payloads :
       id \notin DOMAIN AtomSet_id_src_by_label_value(self, t, label, value)
  /\ \A version \in Versions :
       (c > (IF b \in DOMAIN version THEN version[b] ELSE 0)) =>
         LET acts == AtomSet_actions(self, t, version)
         IN id \in DOMAIN acts /\ acts[id] = <<b, c, None>>

TombstoneIsKept ==
  \A id \in ObjectIds :
    LET item == AtomSet_get(atom_set, txr, id)
        saved == AtomSet_save(atom_set)
        stxr == AtomSet_save_txr(atom_set, txr)
    IN (IsSome(item) /\ Unwrap(item)[3] = None) =>
         /\ TombstoneKept(atom_set, txr, id, Unwrap(item)[1], Unwrap(item)[2])
         /\ TombstoneKept(saved, stxr, id, Unwrap(item)[1], Unwrap(item)[2])

\* An id that has a record keeps one (a re-creation counts after a save).
RecordStays ==
  (/\ last'[1] = "new" => atom_set.mods = EmptyMap
   /\ <<atom_set, txr>>' # <<atom_set, txr>>) =>
    \A id \in ObjectIds :
      IsSome(AtomSet_get(atom_set, txr, id)) => IsSome(AtomSet_get(atom_set', txr', id))

C13_TombstonesPersist == [](TombstoneIsRead /\ TombstoneIsKept) /\ [][RecordStays]_vars

(***************************************************************************)
(* C14.  History is authoritative: in every Store write path the CRDT      *)
(* apply is executed iff the history recorded the entry as novel.  For     *)
(* sync_apply exactly the newly accepted entries are applied, each once;   *)
(* entries whose (bucket, clock) is already recorded are not applied       *)
(* again, so a payload delivered a second time changes no history, no CRDT *)
(* state and emits no events.                                              *)
(***************************************************************************)
\* A step of subscribe_atom or unsubscribe_atom, which is no write path.
SubscriptionStep ==
  \E r \in Subscribers, id \in StoreAtomIds, port \in Ports :
    SubscribeAtom(r, id, port) \/ UnsubscribeAtom(r, id, port)

\* What a write path (set_node, set_atom, set_edge, sync_apply) changed in a
\* replica is the application of the entries its history gained, events to
\* the subscribed ports included, and nothing else.
AppliedIsRecorded ==
  ~SubscriptionStep =>
    \A r \in Replicas :
      LET new == stores'[r].vector_history.entries \ Entries(r)
          recorded == [stores[r] EXCEPT !.vector_history = stores'[r].vector_history]
      IN /\ Entries(r) \subseteq stores'[r].vector_history.entries
         /\ stores'[r] = Store_dispatch(recorded, InKeyOrder(new))

\* A payload whose entries are all recorded changes nothing when applied:
\* no history, no register, and no event to any port, subscribed or not.
SecondDeliveryIsNoOp ==
  (/\ IsSome(wire) /\ Unwrap(wire)[1] = "actions"
   /\ SeqToSet(deserialize(Unwrap(wire)[4])) \subseteq Entries(Unwrap(wire)[3])
   /\ \E to \in Replicas, from \in Replicas : SyncApply(to, from) \/ Duplicate(to, from)) =>
     /\ stores' = stores
     /\ \A r \in Replicas : stores'[r].event_bus = stores[r].event_bus

\* Applying the payload in flight a second time, straight after the first,
\* is the identity on the Store the first application left.
AppliedTwice ==
  (IsSome(wire) /\ Unwrap(wire)[1] = "actions"
   /\ ~Store_sync_apply_panics(stores[Unwrap(wire)[3]], Unwrap(wire)[4])) =>
    LET once == Store_sync_apply(stores[Unwrap(wire)[3]], Unwrap(wire)[4])
    IN Store_sync_apply(once, Unwrap(wire)[4]) = once

C14_HistoryAuthoritative ==
  []AppliedTwice /\ [][AppliedIsRecorded /\ SecondDeliveryIsNoOp]_vars

\* An answer with an atom entry has been applied by a replica whose host is
\* subscribed to the atom and received the snapshot and the event of the
\* first delivery; the answer is in transit once more.
C14_Witness ==
  /\ IsSome(wire)
  /\ Unwrap(wire)[1] = "actions"
  /\ deserialize(Unwrap(wire)[4]) # <<>>
  /\ SeqToSet(deserialize(Unwrap(wire)[4])) \subseteq Entries(Unwrap(wire)[3])
  /\ \E e \in SeqToSet(deserialize(Unwrap(wire)[4])) : e[3] = "atoms"
  /\ stores[Unwrap(wire)[3]].atom_ports # <<>>
  /\ Len(stores[Unwrap(wire)[3]].event_bus.atoms) = 2
  /\ stores[Unwrap(wire)[3]].event_bus.atoms[1][2] # stores[Unwrap(wire)[3]].event_bus.atoms[2][2]

(***************************************************************************)
(* C15.  Local write ordering: every call of Store.set_node, set_atom or   *)
(* set_edge pushes exactly one history entry stamped                       *)
(* (this(), next_this() + 1); the clocks of a replica's own entries are    *)
(* strictly increasing from call to call and the push is always novel,     *)
(* whatever sync_apply calls are interleaved between the writes.           *)
(***************************************************************************)
\* The Stores a local write can leave behind.
AfterLocalWrite(self, r) ==
  {Store_set_node(self, id, value) : id \in StoreNodeIds, value \in VertexValues}
  \cup {Store_set_atom(self, id, value) : id \in StoreAtomIds, value \in StoreAtomValues(r)}
  \cup {Store_set_edge(self, id, value) : id \in StoreEdgeIds, value \in StoreEdgeValues}

C15_LocalWriteOrdering ==
  \A r \in Replicas :
    \A after \in AfterLocalWrite(stores[r], r) :
      LET pushed == after.vector_history.entries \ Entries(r) IN
      /\ Entries(r) \subseteq after.vector_history.entries
      /\ Cardinality(pushed) = 1
      /\ \A e \in pushed :
           /\ e[1] = VectorHistory_this(stores[r].vector_history)
           /\ e[2] = VectorHistory_next_this(stores[r].vector_history) + 1
           /\ \A c \in VectorHistory_clocks(stores[r].vector_history, r) : c < e[2]

\* A replica has written, applied entries of the other replica, and written
\* again.
C15_Witness ==
  \E r \in Replicas :
    /\ {1, 2} \subseteq VectorHistory_clocks(stores[r].vector_history, r)
    /\ \E e \in Entries(r) : e[1] # r
    /\ wire = None

(***************************************************************************)
(* C19.  Per-bucket history contiguity: in every reachable state of        *)
(* replicas that only write locally and exchange sync_serial /             *)
(* sync_actions / sync_apply, the clocks recorded in a replica's history   *)
(* for each bucket are the gap-free range 1..n, so that nexts (1 + max     *)
(* clock per bucket) describes exactly the entries the replica holds.      *)
(***************************************************************************)
C19_HistoryContiguous ==
  \A r \in Replicas :
    LET vh == stores[r].vector_history
        nexts == VectorHistory_nexts(vh)
    IN /\ DOMAIN nexts = {e[1] : e \in vh.entries}
       /\ \A b \in DOMAIN nexts :
            /\ VectorHistory_clocks(vh, b) = 1 .. (nexts[b] - 1)
            /\ Cardinality({e \in vh.entries : e[1] = b}) = nexts[b] - 1

\* A replica holds two entries of the other replica, received in two
\* exchanges.
C19_Witness ==
  \E r \in Replicas, other \in Replicas :
    /\ other # r
    /\ VectorHistory_clocks(stores[r].vector_history, other) = {1, 2}
    /\ VectorHistory_clocks(stores[r].vector_history, r) # {}

(***************************************************************************)
(* C16.  Subscription snapshot and delta: subscribe_atom(id, port)         *)
(* immediately appends exactly one event (port, current read value of id)  *)
(* to the event bus; while subscribed, every write that changes the value  *)
(* of id appends an event (port, new value); after                         *)
(* unsubscribe_atom(id, port) no later write appends any event for that    *)
(* port, and unsubscribe itself appends no event.                          *)
(***************************************************************************)
\* The events a step appended to the bus of replica r.
Appended(r) ==
  SubSeq(stores'[r].event_bus.atoms, Len(stores[r].event_bus.atoms) + 1,
         Len(stores'[r].event_bus.atoms))

\* The ports subscribed to id at replica r, in subscription order.
PortsOf(self, id) ==
  LET mine(p) == p[1] = id
      subscribed == SelectSeq(self.atom_ports, mine)
  IN [i \in DOMAIN subscribed |-> subscribed[i][2]]

SubscriptionEvents ==
  \A r \in Replicas :
    LET bus == stores[r].event_bus
        subscribing == \E id \in StoreAtomIds, port \in Ports : SubscribeAtom(r, id, port)
    IN \* the bus only grows, and only its atoms vector
       /\ SubSeq(stores'[r].event_bus.atoms, 1, Len(bus.atoms)) = bus.atoms
       /\ stores'[r].event_bus = [bus EXCEPT !.atoms = stores'[r].event_bus.atoms]
       \* subscribe: one snapshot event, value and history untouched
       /\ \A id \in StoreAtomIds, port \in Ports :
            SubscribeAtom(r, id, port) =>
              /\ Appended(r) = << <<port, Store_atom(stores[r], id)>> >>
              /\ \E i \in DOMAIN stores'[r].atom_ports : stores'[r].atom_ports[i] = <<id, port>>
              /\ Store_atom(stores'[r], id) = Store_atom(stores[r], id)
       \* a local write that changes the value: one event per subscribed port
       /\ \A id \in StoreAtomIds :
            \A value \in StoreAtomValues(r) :
              (SetAtom(r, id, value) /\ Store_atom(stores[r], id) # value) =>
                Appended(r) = [i \in DOMAIN PortsOf(stores[r], id) |->
                                 <<PortsOf(stores[r], id)[i], value>>]
       \* any write, local or applied from a peer, that changes the value
       /\ \A id \in StoreAtomIds :
            (~subscribing /\ Store_atom(stores'[r], id) # Store_atom(stores[r], id)) =>
              \A i \in DOMAIN PortsOf(stores[r], id) :
                \E k \in DOMAIN Appended(r) :
                  /\ Appended(r)[k] = <<PortsOf(stores[r], id)[i], Store_atom(stores'[r], id)>>
                  /\ \A j \in DOMAIN Appended(r) :
                       (j > k) => Appended(r)[j][1] # PortsOf(stores[r], id)[i]
       \* no event for a port that is not subscribed
       /\ ~subscribing =>
            \A k \in DOMAIN Appended(r) :
              \E i \in DOMAIN stores[r].atom_ports : stores[r].atom_ports[i][2] = Appended(r)[k][1]

\* unsubscribe_atom(id, port) pushes nothing and removes the pair, so that
\* a write after it pushes nothing for the port.
UnsubscribeSilences ==
  \A r \in Replicas, id \in StoreAtomIds, port \in Ports :
    LET after == Store_unsubscribe_atom(stores[r], id, port) IN
    /\ after.event_bus = stores[r].event_bus
    /\ \A i \in DOMAIN after.atom_ports : after.atom_ports[i] # <<id, port>>
    /\ \A value \in StoreAtomValues(r) :
         LET written == Store_set_atom(after, id, value) IN
         \A k \in DOMAIN written.event_bus.atoms :
           (k > Len(after.event_bus.atoms)) => written.event_bus.atoms[k][1] # port

C16_SubscriptionSnapshotDelta == []UnsubscribeSilences /\ [][SubscriptionEvents]_vars

\* Port 1 received the snapshot None and the delta of a write, was
\* unsubscribed, and a later write changed the value without an event.
C16_Witness ==
  \E r \in Replicas :
    /\ Len(stores[r].event_bus.atoms) = 2
    /\ stores[r].event_bus.atoms[1] = <<1, None>>
    /\ IsSome(stores[r].event_bus.atoms[2][2])
    /\ stores[r].atom_ports = <<>>
    /\ Store_atom(stores[r], 1) # stores[r].event_bus.atoms[2][2]

(***************************************************************************)
(* C17.  Staging window bookkeeping: between two saves, mods[id] =         *)
(* (prev, curr) keeps prev equal to the backend value of id as it was when *)
(* id was first written in the window, however many accepted sets hit id,  *)
(* and curr is the last accepted write; save() writes curr of every staged *)
(* id to the backend, returns the staged map and leaves mods empty, and    *)
(* get(id) is the same immediately before and after save for every id.     *)
(***************************************************************************)
\* The backend only changes in save(), which empties mods: prev of a staged
\* id is what the backend holds.
PrevIsBackendValue ==
  \A id \in DOMAIN atom_set.mods : atom_set.mods[id][1] = Transactor_get(txr, id)

AcceptedSetStages ==
  \A id \in ObjectIds, bucket \in Buckets, clock \in Clocks, slv \in Slvs :
    LET staged == AtomSet_set(atom_set, txr, id, bucket, clock, slv).mods IN
    AtomSet_set_ret(atom_set, bucket, clock) =>
      /\ DOMAIN staged = DOMAIN atom_set.mods \cup {id}
      /\ staged[id][2] = <<bucket, clock, slv>>
      /\ staged[id][1] = IF id \in DOMAIN atom_set.mods THEN atom_set.mods[id][1]
                         ELSE Transactor_get(txr, id)
      /\ \A other \in DOMAIN atom_set.mods \ {id} : staged[other] = atom_set.mods[other]

SaveFlushes ==
  LET saved == AtomSet_save_txr(atom_set, txr) IN
  /\ AtomSet_save_ret(atom_set) = atom_set.mods
  /\ AtomSet_save(atom_set).mods = EmptyMap
  /\ \A id \in DOMAIN atom_set.mods : Transactor_get(saved, id) = Some(atom_set.mods[id][2])
  /\ \A id \in ObjectIds :
       AtomSet_get(AtomSet_save(atom_set), saved, id) = AtomSet_get(atom_set, txr, id)

C17_StagingWindow == PrevIsBackendValue /\ AcceptedSetStages /\ SaveFlushes

\* Only id is staged, over a saved value of bucket b at clock 0; in this
\* window the clock of b was raised and a write of another bucket is curr:
\* two accepted sets hit id.
C17_Witness ==
  \E id \in ObjectIds, b \in Buckets :
    /\ DOMAIN atom_set.mods = {id}
    /\ IsSome(atom_set.mods[id][1])
    /\ Unwrap(atom_set.mods[id][1])[1] = b
    /\ Unwrap(atom_set.mods[id][1])[2] = 0
    /\ atom_set.mods[id][2][1] # b
    /\ MapGet(txr.meta, b) = Some(0)
    /\ MapGet(atom_set.metadata, b) = Some(1)

(***************************************************************************)
(* C18.  Out-of-order references heal: an edge (or atom) written before    *)
(* its endpoint vertices is accepted and stored; edge(id) (atom(id)) reads *)
(* None while an endpoint is missing, and once writes making every         *)
(* referenced vertex present have been applied, in any order, it returns   *)
(* the stored value without the edge (atom) being rewritten.               *)
(***************************************************************************)
\* The first write of an edge or atom is stored whatever vertices exist.
FirstWriteIsStored ==
  /\ \A index \in EdgeIds, value \in EdgeValues, clock \in Stamps :
       (ApplyEdgeMod(index, value, clock) /\ index \notin DOMAIN graph.edges) =>
         graph'.edges[index] = Register_make_mod(value, clock)
  /\ \A index \in AtomIds, value \in AtomValues, clock \in Stamps :
       (ApplyAtomMod(index, value, clock) /\ index \notin DOMAIN graph.atoms) =>
         graph'.atoms[index] = Register_make_mod(value, clock)

\* A step that writes no edge and no atom, such as the arrival of a vertex:
\* each stored reference is read iff all its vertices are now present.
HealsOnArrival ==
  (graph'.edges = graph.edges /\ graph'.atoms = graph.atoms /\ graph' # graph) =>
    /\ \A id \in DOMAIN graph.edges :
         LET stored == Register_get(graph.edges[id]) IN
         IsSome(stored) =>
           ObjectGraph_edge(graph', id) =
             IF /\ IsSome(ObjectGraph_vertex(graph', Unwrap(stored)[1]))
                /\ IsSome(ObjectGraph_vertex(graph', Unwrap(stored)[2]))
             THEN stored ELSE None
    /\ \A id \in DOMAIN graph.atoms :
         LET stored == Register_get(graph.atoms[id]) IN
         IsSome(stored) =>
           ObjectGraph_atom(graph', id) =
             IF IsSome(ObjectGraph_vertex(graph', Unwrap(stored)[1]))
             THEN stored ELSE None

C18_OutOfOrderHeals == [][FirstWriteIsStored /\ HealsOnArrival]_vars

(***************************************************************************)
(* C21.  set_edge_dst(id, dst) is a complete no-op (no history entry, no   *)
(* register change, no event) whenever edge(id) reads None, which includes *)
(* an edge whose register is present but hidden because an endpoint vertex *)
(* is absent; otherwise it performs exactly one local edge write setting   *)
(* the register to (src, label, dst) with src and label as read, so the    *)
(* history grows by exactly one entry.                                     *)
(***************************************************************************)
\* The call in progress at replica r holds the value edge(id) read, which is
\* still what edge(id) reads; a call that reads None holds nothing and has
\* ended.  The write it is about to make is one local edge write.
SetEdgeDstEffect ==
  \A r \in Replicas :
    LET self == stores[r] IN
    /\ \A id \in StoreEdgeIds, dst \in ObjectIds :
         Store_set_edge_dst(self, id, dst, None) = self
    /\ IF pending[r] = None THEN TRUE
       ELSE LET id == Unwrap(pending[r])[1]
                dst == Unwrap(pending[r])[2]
                e == Unwrap(pending[r])[3]
                after == Store_set_edge_dst(self, id, dst, e)
                added == after.vector_history.entries \ self.vector_history.entries
            IN /\ e # None
               /\ e = Store_edge(self, id)
               /\ self.vector_history.entries \subseteq after.vector_history.entries
               /\ Cardinality(added) = 1
               /\ \A entry \in added :
                    /\ entry[1] = VectorHistory_this(self.vector_history)
                    /\ entry[2] = VectorHistory_next_this(self.vector_history) + 1
                    /\ entry[3] = "graph"
               /\ Register_get(after.graph.inner.edges[id]) =
                    Some(<<Unwrap(e)[1], dst, Unwrap(e)[2]>>)
               /\ DOMAIN after.graph.inner.edges = DOMAIN self.graph.inner.edges
               /\ after.graph.inner.vertices = self.graph.inner.vertices
               /\ after.graph.inner.atoms = self.graph.inner.atoms
               /\ Store_edge(after, id) =
                    IF IsSome(Store_node(self, dst))
                    THEN Some(<<Unwrap(e)[1], Unwrap(e)[2], dst>>) ELSE None
               /\ after.connection = self.connection /\ after.atoms = self.atoms
               /\ after.atom_ports = self.atom_ports
               /\ after.event_bus.atoms = self.event_bus.atoms
               /\ after.event_bus.nodes = self.event_bus.nodes
               /\ after.event_bus.edges =
                    self.event_bus.edges \o
                      (IF Store_edge(after, id) = e THEN <<>>
                       ELSE LET at(p) == p[1] = id
                                ports == SelectSeq(self.edge_ports, at)
                            IN [i \in DOMAIN ports |-> <<ports[i][2], Store_edge(after, id)>>])

\* The first transaction of set_edge_dst changes no Store, and on an edge
\* that reads None it is the whole call; the second adds one entry to the
\* history of the replica and ends the call.
SetEdgeDstStep ==
  /\ \A r \in Replicas, id \in StoreEdgeIds, dst \in ObjectIds :
       SetEdgeDstRead(r, id, dst) =>
         /\ stores' = stores
         /\ IF Store_edge(stores[r], id) = None
            THEN pending' = pending
            ELSE pending'[r] = Some(<<id, dst, Store_edge(stores[r], id)>>)
  /\ \A r \in Replicas :
       SetEdgeDstWrite(r) =>
         /\ Cardinality(stores'[r].vector_history.entries) =
              Cardinality(stores[r].vector_history.entries) + 1
         /\ \A o \in Replicas \ {r} : stores'[o] = stores[o]
         /\ pending'[r] = None

C21_SetEdgeDst == []SetEdgeDstEffect /\ [][SetEdgeDstStep]_vars

\* set_edge_dst has redirected the edge to vertex 2, which the replica has
\* never seen, and the subscriber of the edge was told of the edge and of
\* its hiding: the call has ended, the register is present, edge(id) reads
\* None, and a further set_edge_dst is the no-op.
C21_Witness ==
  \E r \in Replicas, id \in StoreEdgeIds :
    /\ pending[r] = None
    /\ \E port \in Ports : <<id, port>> \in SeqToSet(stores[r].edge_ports)
    /\ SeqToSet(stores[r].event_bus.edges) = {<<1, Some(<<1, 5, 1>>)>>, <<1, None>>}
    /\ id \in DOMAIN stores[r].graph.inner.edges
    /\ Register_get(stores[r].graph.inner.edges[id]) = Some(<<1, 2, 5>>)
    /\ Store_node(stores[r], 2) = None
    /\ 2 \notin DOMAIN stores[r].graph.inner.vertices
    /\ Store_edge(stores[r], id) = None

(***************************************************************************)
(* C22.  Unknown structure names: a newly accepted sync_apply entry whose  *)
(* structure name is neither "atoms" nor "graph" is recorded in the        *)
(* history (it counts in sync_serial and is forwarded by later             *)
(* sync_actions) but changes no CRDT register and emits no event, and it   *)
(* does not prevent the remaining entries of the same payload from being   *)
(* applied.                                                                *)
(***************************************************************************)
KnownName(entry) == entry[3] \in {"atoms", "graph"}

\* What sync_apply of the payload in flight does to the replica it is for.
UnknownNameIsSkipped ==
  (IsSome(wire) /\ Unwrap(wire)[1] = "actions") =>
    LET self == stores[Unwrap(wire)[3]]
        accepted == VectorHistory_append_ret(self.vector_history,
                                             deserialize(Unwrap(wire)[4]))
        after == Store_sync_apply(self, Unwrap(wire)[4])
        without == Store_dispatch(self, SelectSeq(accepted, KnownName))
        forwarded == deserialize(Store_sync_actions(after, serialize(EmptyMap)))
    IN /\ \A i \in DOMAIN accepted :
            /\ accepted[i] \in after.vector_history.entries
            /\ deserialize(Store_sync_serial(after))[accepted[i][1]] > accepted[i][2]
            /\ \E k \in DOMAIN forwarded : forwarded[k] = accepted[i]
       /\ after.atoms = without.atoms
       /\ after.graph = without.graph
       /\ after.connection = without.connection
       /\ after.atom_ports = without.atom_ports
       /\ after.event_bus = without.event_bus
       /\ (\A i \in DOMAIN accepted : ~KnownName(accepted[i])) =>
            after = [self EXCEPT !.vector_history = after.vector_history]

C22_UnknownStructureNames == UnknownNameIsSkipped

\* The payload in flight to a subscribed replica holds a new entry of the
\* structure "other" followed by a new atom write that changes what the
\* replica reads.
C22_Witness ==
  /\ IsSome(wire)
  /\ Unwrap(wire)[1] = "actions"
  /\ LET self == stores[Unwrap(wire)[3]]
         accepted == VectorHistory_append_ret(self.vector_history,
                                              deserialize(Unwrap(wire)[4]))
     IN /\ self.atom_ports # <<>>
        /\ \E i, j \in DOMAIN accepted :
             /\ i < j
             /\ accepted[i][3] = "other"
             /\ accepted[j][3] = "atoms"
        /\ Len(Store_sync_apply(self, Unwrap(wire)[4]).event_bus.atoms)
             > Len(self.event_bus.atoms)

(***************************************************************************)
(* C23.  Stamps never run ahead of metadata: after any sequence of set and *)
(* save, for every id the stamp (bucket, clock) returned by get(id) has    *)
(* bucket in buckets() and clock <= buckets()[bucket], and next() is       *)
(* strictly greater than the clock of every stored or staged item.         *)
(***************************************************************************)
C23_StampsWithinMetadata ==
  /\ \A id \in ObjectIds :
       LET item == AtomSet_get(atom_set, txr, id) IN
       IsSome(item) =>
         /\ Unwrap(item)[1] \in DOMAIN AtomSet_buckets(atom_set)
         /\ Unwrap(item)[2] <= AtomSet_buckets(atom_set)[Unwrap(item)[1]]
         /\ Unwrap(item)[2] < AtomSet_next(atom_set)
  /\ \A id \in DOMAIN atom_set.mods : atom_set.mods[id][2][2] < AtomSet_next(atom_set)
  /\ \A row \in txr.data : row[2][2] < AtomSet_next(atom_set)

\* A staged item carries the newest clock of its bucket while a saved item
\* of the same bucket, not staged, lies below it.
C23_Witness ==
  \E staged \in DOMAIN atom_set.mods, saved \in ObjectIds \ DOMAIN atom_set.mods :
    /\ IsSome(Transactor_get(txr, saved))
    /\ Unwrap(Transactor_get(txr, saved))[1] = atom_set.mods[staged][2][1]
    /\ atom_set.mods[staged][2][2] = AtomSet_buckets(atom_set)[atom_set.mods[staged][2][1]]
    /\ Unwrap(Transactor_get(txr, saved))[2] < atom_set.mods[staged][2][2]

(***************************************************************************)
(* C24.  Collection registry disjointness: after any sequence of           *)
(* add_joinable, add_delta_joinable and add_gamma_joinable calls each      *)
(* structure name is a key of at most one of the three maps; an add_* call *)
(* with a name registered in any of the three maps fails its assertion     *)
(* before opening a transaction and before modifying any map.              *)
(***************************************************************************)
RegistryDisjoint ==
  /\ DOMAIN collection.joinable \cap DOMAIN collection.delta_joinable = {}
  /\ DOMAIN collection.joinable \cap DOMAIN collection.gamma_joinable = {}
  /\ DOMAIN collection.delta_joinable \cap DOMAIN collection.gamma_joinable = {}

\* A registered name is refused by all three calls, and a refused call is
\* one that leaves the Collection, its transactions included, as it was.
RegisteredIsRefused ==
  \A name \in DOMAIN collection.joinable \cup DOMAIN collection.delta_joinable
                \cup DOMAIN collection.gamma_joinable :
    /\ Collection_add_joinable_panics(collection, name)
    /\ Collection_add_delta_joinable_panics(collection, name)
    /\ Collection_add_gamma_joinable_panics(collection, name)

\* A call with a registered name leaves the Collection as it was; any other
\* call adds the name to its own map alone, in one transaction.
AddStep ==
  \A name \in Names :
    (AddJoinable(name) \/ AddDeltaJoinable(name) \/ AddGammaJoinable(name)) =>
      IF \/ name \in DOMAIN collection.joinable
         \/ name \in DOMAIN collection.delta_joinable
         \/ name \in DOMAIN collection.gamma_joinable
      THEN collection' = collection /\ last'[2] = "panic"
      ELSE /\ last'[2] = "ok"
           /\ collection'.txns = collection.txns + 1
           /\ DOMAIN collection'.joinable \cup DOMAIN collection'.delta_joinable
                \cup DOMAIN collection'.gamma_joinable
              = DOMAIN collection.joinable \cup DOMAIN collection.delta_joinable
                  \cup DOMAIN collection.gamma_joinable \cup {name}

C24_RegistryDisjoint == [](RegistryDisjoint /\ RegisteredIsRefused) /\ [][AddStep]_vars

\* Each map holds a name and the last call, add_delta_joinable, was refused.
C24_Witness ==
  /\ collection.joinable # EmptyMap
  /\ collection.delta_joinable # EmptyMap
  /\ collection.gamma_joinable # EmptyMap
  /\ last = <<"add_delta_joinable", "panic">>

====
